---- MODULE Spec2Model ----
(***************************************************************************)
(* State-machine model of the Docker runtime of mockoon-ui: the storage    *)
(* key sanitizer, the bootstrap reconciliation of the environment files    *)
(* and of settings.json, the supervision of the mockoon-cli child process  *)
(* together with the HTTP listener, and the storage HTTP API; and of the   *)
(* MainApiService of the UI, which stores through that API or through      *)
(* IndexedDB and localStorage.                                             *)
(*                                                                         *)
(* Strings that the code inspects character by character (storage keys,   *)
(* file names, the MOCKOON_DATA_FILES value) are sequences of one-         *)
(* character strings.                                                      *)
(***************************************************************************)
EXTENDS Integers, Sequences, FiniteSets, TLC

VARIABLES
  \* ---- storage key sanitizer / route resolution
  reqId,            \* req.params.id of the request being resolved
  reqMethod,        \* "none" until a route has resolved the identifier
  reqFileName,      \* fileName computed by the route
  reqFilePath       \* filePath computed by the route, as path segments

sanVars == <<reqId, reqMethod, reqFileName, reqFilePath>>

VARIABLES
  \* ---- configuration and disk
  dataFilesEnv,     \* DEFAULT_DATA_FILES, resolved once from the environment
  fsWritable,       \* FALSE: fsp.writeFile fails with a non-ENOENT error
  files,            \* content of every path of the environments directory
  settingsFile,     \* content of <DATA_DIR>/settings.json
  \* ---- ensureInitialState
  pc,               \* position of the entry point / startCombinedMode
  fileNames,        \* const fileNames
  index,            \* loop variable of ensureInitialState (0-based)
  descriptors,      \* const descriptors
  uuidCounter,      \* number of uuids BuildEnvironment has generated
  \* ---- bookkeeping of the runs (not program state)
  run,              \* 1 for the first start of the process, 2 for the next
  envWrites,        \* environment file writes of the current run
  settingsWrites,   \* settings.json writes of the current run
  settingsBefore    \* settings.json as the current run found it

diskVars == <<dataFilesEnv, fsWritable, files, settingsFile>>
bootVars == <<pc, fileNames, index, descriptors, uuidCounter>>
runVars == <<run, envWrites, settingsWrites, settingsBefore>>

VARIABLES
  \* ---- startCombinedMode
  uiWritable,       \* FALSE: writeDockerRuntimeConfig fails
  child,            \* cliProcess: "none", "running" or "exited"
  childCode,        \* exit code of the child, NoCode when it has none
  childSignal,      \* signal that ended the child, "none" otherwise
  exitEvent,        \* the child's 'exit' event: "none", "pending", "handled"
  childKilled,      \* cliProcess.killed
  server,           \* listener: "none", "listening", "closing", "closed"
  closeCallback,    \* callback given to server.close: "none", "pending", "called"
  shuttingDown,     \* let shuttingDown
  exitCodeArg,      \* exitCode captured by the close callback
  procExited,       \* process.exit has been called
  procExitCode,     \* the code it was called with
  \* ---- bookkeeping of the supervision (not program state)
  shutdownRuns,     \* executions of the body of shutdown
  closeCalls,       \* calls of server.close
  killCalls,        \* calls of cliProcess.kill
  exitCalls,        \* calls of process.exit
  events            \* triggers delivered so far, with the code each handler
                    \* passed to shutdown (NoCode when it called none)

supVars == <<uiWritable, child, childCode, childSignal, exitEvent, childKilled,
             server, closeCallback, shuttingDown, exitCodeArg, procExited,
             procExitCode>>
countVars == <<shutdownRuns, closeCalls, killCalls, exitCalls, events>>

VARIABLES
  \* ---- storage HTTP API
  writers,          \* the fsp.writeFile calls of PUT handlers still in flight
  response,         \* the response sent last, with the request it answers
  served,           \* number of responses sent
  \* ---- bookkeeping of the storage API (not program state)
  lastWrite         \* per file: what the PUT or DELETE that last completed on
                    \* it, undisturbed by another, left there

apiVars == <<writers, response, served, lastWrite>>

VARIABLES
  \* ---- MainApiService, run against both of its backends
  idbStore,         \* the object store 'environments' of IndexedDB, by key
  appSettings,      \* localStorage item 'appSettings'
  invocation,       \* the invoke call made last
  netResult,        \* its outcome with the storage API as backend
  idbResult,        \* its outcome with IndexedDB and localStorage as backend
  invoked,          \* number of invoke calls made
  fetched,          \* the Response its fetch resolved with
  \* ---- one IndexedDB operation of MainApiService at a time
  idbOperation,     \* "none", "read", "write" or "delete"
  idbPhase,         \* position of the operation
  idbPromise,       \* promise of the operation: "none", "pending", "resolved"
                    \* or "rejected"
  idbTransaction,   \* its transaction: "none", "active", "complete", "aborted"
  onComplete,       \* transaction.oncomplete has been assigned
  openConnections,  \* connections opened and not closed
  idbOperations     \* number of operations started

clientVars == <<idbStore, appSettings, invocation, netResult, idbResult, invoked,
                fetched>>
idbVars == <<idbOperation, idbPhase, idbPromise, idbTransaction, onComplete,
             openConnections, idbOperations>>

VARIABLES
  \* ---- sha1(message), step by step
  shaMessage,       \* message: the characters of the string
  shaPc,            \* position in sha1: "start", "load", "expand", "rounds", "done"
  shaWords,         \* words: the padded message, as 32-bit words
  shaH,             \* h0 .. h4
  shaW,             \* w: the 80 words of the block being processed
  shaRegs,          \* a, b, c, d, e
  shaI,             \* i of the loop of 80 rounds
  shaBlockStart,    \* blockStart
  shaDigest,        \* the string returned
  \* ---- dispatch of APP_GET_HASH
  subtle,           \* window.crypto.subtle of the last call: "present",
                    \* "undefined" (not a secure context) or "rejects"
  hashResult,       \* outcome of the last call
  hashCalls         \* number of calls made

shaVars == <<shaMessage, shaPc, shaWords, shaH, shaW, shaRegs, shaI,
             shaBlockStart, shaDigest>>
hashVars == <<shaVars, subtle, hashResult, hashCalls>>

storageVars == <<apiVars, clientVars, idbVars, hashVars>>

runtimeVars == <<sanVars, bootVars, runVars, supVars, countVars>>

vars == <<sanVars, diskVars, bootVars, runVars, supVars, countVars, storageVars>>

----------------------------------------------------------------------------
(* Bounds of the model *)

\* longest free prefix of a request identifier (before a chosen ending)
MaxIdLen == 3

\* most descriptors a settings.json holds before the first start
MaxPrior == 2

\* number of consecutive starts of the process against the same disk
MaxRuns == 2

\* most triggers (signals, exceptions, rejections, ...) delivered to one process
MaxTriggers == 3

----------------------------------------------------------------------------
(* Characters *)

UpperCase == <<"A","B","C","D","E","F","G","H","I","J","K","L","M",
               "N","O","P","Q","R","S","T","U","V","W","X","Y","Z">>
LowerCase == <<"a","b","c","d","e","f","g","h","i","j","k","l","m",
               "n","o","p","q","r","s","t","u","v","w","x","y","z">>
Digits == {"0","1","2","3","4","5","6","7","8","9"}

Range(s) == {s[i] : i \in DOMAIN s}

\* the class [a-zA-Z0-9_.-] of the regular expression
AllowedChars == Range(UpperCase) \cup Range(LowerCase) \cup Digits \cup {"_", ".", "-"}

\* String.prototype.toLowerCase on one character
LowerChar(c) ==
  IF c \in Range(UpperCase)
    THEN LowerCase[CHOOSE i \in DOMAIN UpperCase : UpperCase[i] = c]
    ELSE c

toLowerCase(s) == [i \in DOMAIN s |-> LowerChar(s[i])]

DotJson == <<".", "j", "s", "o", "n">>

endsWith(s, suffix) ==
  /\ Len(s) >= Len(suffix)
  /\ SubSeq(s, Len(s) - Len(suffix) + 1, Len(s)) = suffix

----------------------------------------------------------------------------
(* sanitizeStorageKey / ensureJsonExtension *)

\* value.replace(/\\/g, '/')
ReplaceBackslashes(value) ==
  [i \in DOMAIN value |-> IF value[i] = "\\" THEN "/" ELSE value[i]]

\* a sanitizer that keeps the whole value instead of its last segment
LastSegmentWholeValue(value) == value

\* .split('/').pop()
LastSegment(value) ==
  LET slashes == {i \in DOMAIN value : value[i] = "/"}
      last == IF slashes = {} THEN 0
              ELSE CHOOSE i \in slashes : \A j \in slashes : j <= i
  IN SubSeq(value, last + 1, Len(value))

IsAllowedChar(c) == c \in AllowedChars

\* lastSegment.replace(/[^a-zA-Z0-9_.-]/g, '')
StripDisallowed(segment) == SelectSeq(segment, IsAllowedChar)

sanitizeStorageKey(value) ==
  IF value = <<>> THEN <<>>
  ELSE LET lastSegment == LastSegment(ReplaceBackslashes(value))
           sanitized == StripDisallowed(lastSegment)
       IN IF sanitized # <<>> THEN sanitized ELSE lastSegment

DefaultFileName ==
  <<"e","n","v","i","r","o","n","m","e","n","t",".","j","s","o","n">>

ensureJsonExtension(value) ==
  LET sanitized == sanitizeStorageKey(value)
  IN IF sanitized = <<>> THEN DefaultFileName
     ELSE IF endsWith(toLowerCase(sanitized), DotJson) THEN sanitized
     ELSE sanitized \o DotJson

----------------------------------------------------------------------------
(* path.join(envDir, fileName) on POSIX: segments split on "/", with "."   *)
(* dropped and ".." removing the segment before it.                        *)

\* DATA_DIR "/data" and ENV_SUBDIR "environments", as path segments
EnvDir == << <<"d","a","t","a">>,
             <<"e","n","v","i","r","o","n","m","e","n","t","s">> >>

RECURSIVE SplitOn(_, _)
SplitOn(s, sep) ==
  LET hits == {i \in DOMAIN s : s[i] = sep}
  IN IF hits = {} THEN <<s>>
     ELSE LET first == CHOOSE i \in hits : \A j \in hits : i <= j
          IN <<SubSeq(s, 1, first - 1)>> \o SplitOn(SubSeq(s, first + 1, Len(s)), sep)

RECURSIVE NormalizeSegments(_, _)
NormalizeSegments(done, todo) ==
  IF todo = <<>> THEN done
  ELSE LET seg == Head(todo)
       IN IF seg = <<>> \/ seg = <<".">>
            THEN NormalizeSegments(done, Tail(todo))
          ELSE IF seg = <<".", ".">>
            THEN NormalizeSegments(
                   IF done = <<>> THEN done ELSE SubSeq(done, 1, Len(done) - 1),
                   Tail(todo))
          ELSE NormalizeSegments(Append(done, seg), Tail(todo))

pathJoin(dir, name) == NormalizeSegments(dir, SplitOn(name, "/"))

----------------------------------------------------------------------------
(* Request identifiers: every string of up to MaxIdLen characters of a     *)
(* small alphabet, followed by one of a few endings.                       *)

IdAlphabet == {"/", "\\", ".", "a", " ", "J"}

IdEndings ==
  { <<>>,
    <<"/">>,
    <<"\\">>,
    <<".", ".">>,
    <<".", "j", "s", "o", "n">>,
    <<".", "J", "S", "O", "N">>,
    <<".", "J", "s", "o", "n", " ">>,
    <<"j", "s", "o", "n">>,
    <<".", "j", "s", "o">>,
    <<"/", ".", "j", "s", "o", "n">> }

StringsUpTo(alphabet, n) == UNION {[1..k -> alphabet] : k \in 0..n}

RequestIds == {p \o e : p \in StringsUpTo(IdAlphabet, MaxIdLen), e \in IdEndings}

TraversalId ==
  <<".",".","/",".",".","/","e","t","c","/","p","a","s","s","w","d">>

Methods == {"GET", "PUT", "DELETE"}

SanIdle ==
  /\ reqId = <<>>
  /\ reqMethod = "none"
  /\ reqFileName = <<>>
  /\ reqFilePath = <<>>

SanInit ==
  /\ reqId \in RequestIds \cup {TraversalId}
  /\ reqMethod = "none"
  /\ reqFileName = <<>>
  /\ reqFilePath = <<>>

\* the first two statements of the GET, PUT and DELETE environments/:id routes
ResolveEnvironmentRoute(method) ==
  /\ reqMethod = "none"
  /\ reqMethod' = method
  /\ reqFileName' = ensureJsonExtension(reqId)
  /\ reqFilePath' = pathJoin(EnvDir, ensureJsonExtension(reqId))
  /\ UNCHANGED <<reqId, diskVars, bootVars, runVars, supVars, countVars,
                 storageVars>>

----------------------------------------------------------------------------
(* Configuration: MOCKOON_DATA_FILES and the file names derived from it *)

DEFAULT_PORT == 3000

Whitespace == {" "}

RECURSIVE trimStart(_)
trimStart(s) ==
  IF s # <<>> /\ Head(s) \in Whitespace THEN trimStart(Tail(s)) ELSE s

RECURSIVE trimEnd(_)
trimEnd(s) ==
  IF s # <<>> /\ s[Len(s)] \in Whitespace
    THEN trimEnd(SubSeq(s, 1, Len(s) - 1))
    ELSE s

trim(s) == trimEnd(trimStart(s))

IsTruthyString(s) == s # <<>>

\* value.split(',').map((item) => ensureJsonExtension(item.trim())).filter(Boolean)
parseDataFileNames(value) ==
  LET items == SplitOn(value, ",")
      names == [i \in DOMAIN items |-> ensureJsonExtension(trim(items[i]))]
  IN SelectSeq(names, IsTruthyString)

resolveDataFiles(names) == [i \in DOMAIN names |-> pathJoin(EnvDir, names[i])]

\* values of MOCKOON_DATA_FILES: one file, two files, the same file twice
\* (once with and once without its extension), and only whitespace
DataFilesValues ==
  { <<"a">>,
    <<"a", ",", "b">>,
    <<"a", ",", " ", "a", ".", "j", "s", "o", "n">>,
    <<" ">> }

FileUniverse == UNION {Range(parseDataFileNames(v)) : v \in DataFilesValues}

PathUniverse == {pathJoin(EnvDir, n) : n \in FileUniverse}

----------------------------------------------------------------------------
(* File contents.  An environment file is absent, unreadable (any error    *)
(* other than ENOENT), not JSON, a JSON value that is no object, or a JSON *)
(* object, of which the code reads uuid ("" stands for a missing or falsy  *)
(* uuid).                                                                  *)

ExistingUuids == {"u1", "u2"}
FreshUuids == <<"f1", "f2", "f3", "f4">>

EnvContent(kind, uuid, port) == [kind |-> kind, uuid |-> uuid, port |-> port]

EnvAbsent == EnvContent("absent", "", 0)

EnvFileContents ==
  {EnvAbsent, EnvContent("ioerror", "", 0), EnvContent("unparsable", "", 0),
   EnvContent("scalar", "", 0)}
  \cup {EnvContent("object", u, 0) : u \in ExistingUuids \cup {""}}

(* A JSON value read from settings.json: null, another scalar, an array or *)
(* an object.  Of an object the code reads environments (hasEnvs: it is an *)
(* array) and activeEnvironmentUuid ("" when unset); prefs stands for all  *)
(* the other fields.  An array in memory can carry the same properties,    *)
(* which JSON.stringify does not serialize.                                *)

JsonValue(kind, hasEnvs, environments, active, prefs) ==
  [kind |-> kind, hasEnvs |-> hasEnvs, environments |-> environments,
   activeEnvironmentUuid |-> active, prefs |-> prefs]

JsonNull == JsonValue("null", FALSE, <<>>, "", "none")

Descriptor(uuid, path) ==
  [uuid |-> uuid, path |-> path, cloud |-> FALSE, lastServerHash |-> "null"]

StaleFileName == <<"o", "l", "d", ".", "j", "s", "o", "n">>

PriorDescriptors ==
  {Descriptor(u, p) : u \in {"u1", "u3"},
                      p \in {StaleFileName, <<"a", ".", "j", "s", "o", "n">>}}

PriorEnvironments == UNION {[1..k -> PriorDescriptors] : k \in 0..MaxPrior}

SettingsValues ==
  {JsonNull, JsonValue("scalar", FALSE, <<>>, "", "none"),
   JsonValue("array", FALSE, <<>>, "", "custom")}
  \cup {JsonValue("object", FALSE, <<>>, a, "custom") : a \in {"", "u3"}}
  \cup {JsonValue("object", TRUE, e, a, p) :
          e \in PriorEnvironments, a \in {"", "u1", "u3"},
          p \in {"default", "custom"}}

SettingsContent(kind, json) == [kind |-> kind, json |-> json]

SettingsAbsent == SettingsContent("absent", JsonNull)

SettingsFileContents ==
  {SettingsAbsent, SettingsContent("ioerror", JsonNull),
   SettingsContent("blank", JsonNull), SettingsContent("unparsable", JsonNull)}
  \cup {SettingsContent("json", v) : v \in SettingsValues}

\* JSON.stringify(settings, null, 2): the own enumerable properties of an
\* object; of an array only its elements
Stringify(value) ==
  IF value.kind = "array"
    THEN SettingsContent("json", JsonValue("array", FALSE, <<>>, "", value.prefs))
    ELSE SettingsContent("json", value)

\* parseJsonOrNull
parseJsonOrNull(content) ==
  IF content.kind = "json" THEN content.json ELSE JsonNull

\* !settings || typeof settings !== 'object'
IsNoObject(value) == value.kind \in {"null", "scalar"}

----------------------------------------------------------------------------
(* ensureEnvironmentFile *)

BuildEnvironmentOnDefaultPort(idx, counter) ==
  EnvContent("object", FreshUuids[counter + 1], DEFAULT_PORT)

\* BuildEnvironment({... port: DEFAULT_PORT + index}) with a generated uuid
BuildEnvironment(idx, counter) ==
  EnvContent("object", FreshUuids[counter + 1], DEFAULT_PORT + idx)

\* outcome of ensureEnvironmentFile(filePath, fileName, index) on a file
\* content: it throws, returns the parsed document, or creates the file
EnvOutcome(content) ==
  CASE content.kind = "ioerror" -> "throw"
    [] content.kind = "unparsable" -> "throw"
    [] content.kind = "scalar" -> "throw"
    [] content.kind = "object" /\ content.uuid = "" -> "throw"
    [] content.kind = "object" /\ content.uuid # "" -> "return"
    [] content.kind = "absent" -> IF fsWritable THEN "create" ELSE "throw"

\* a write that never reaches the disk
writeFileSkipped(fs, filePath, content) == fs

\* fsp.writeFile(filePath, content): the file holds the content afterwards
writeFile(fs, filePath, content) == [fs EXCEPT ![filePath] = content]

----------------------------------------------------------------------------
(* ensureSettingsFile *)

\* default settings that do not embed the descriptor list
buildDefaultSettingsWithoutDescriptors(descs) ==
  JsonValue("object", TRUE, <<>>, "", "default")

buildDefaultSettings(descs) ==
  JsonValue("object", TRUE, descs,
            IF Len(descs) > 0 THEN descs[1].uuid ELSE "", "default")

\* settings.environments.find((item) => item.uuid === descriptor.uuid)
FindIndex(environments, uuid) ==
  LET hits == {i \in DOMAIN environments : environments[i].uuid = uuid}
  IN IF hits = {} THEN 0 ELSE CHOOSE i \in hits : \A j \in hits : i <= j

\* a loop body that appends every descriptor without looking it up
ReconcileOneAlwaysAppend(acc, descriptor) ==
  [environments |-> Append(acc.environments, descriptor), changed |-> TRUE]

\* the body of descriptors.forEach, on <<environments, changed>>
ReconcileOne(acc, descriptor) ==
  LET existing == FindIndex(acc.environments, descriptor.uuid)
  IN IF existing = 0
       THEN [environments |-> Append(acc.environments, descriptor), changed |-> TRUE]
     ELSE IF acc.environments[existing].path # descriptor.path
       THEN [environments |->
               [acc.environments EXCEPT ![existing].path = descriptor.path],
             changed |-> TRUE]
     ELSE acc

RECURSIVE ReconcileAll(_, _)
ReconcileAll(acc, descs) ==
  IF descs = <<>> THEN acc
  ELSE ReconcileAll(ReconcileOne(acc, Head(descs)), Tail(descs))

\* a reconciliation that leaves activeEnvironmentUuid as it found it
ReconcileSettingsKeepActive(settings, descs) ==
  LET start == [environments |->
                  IF settings.hasEnvs THEN settings.environments ELSE <<>>,
                changed |-> FALSE]
      merged == ReconcileAll(start, descs)
  IN [settings |->
        JsonValue(settings.kind, TRUE, merged.environments,
                  settings.activeEnvironmentUuid, settings.prefs),
      changed |-> merged.changed]

\* the else branch of ensureSettingsFile: the settings after reconciliation
\* and whether they changed
ReconcileSettings(settings, descs) ==
  LET start == [environments |->
                  IF settings.hasEnvs THEN settings.environments ELSE <<>>,
                changed |-> FALSE]
      merged == ReconcileAll(start, descs)
      setActive == settings.activeEnvironmentUuid = "" /\ Len(descs) > 0
  IN [settings |->
        JsonValue(settings.kind, TRUE, merged.environments,
                  IF setActive THEN descs[1].uuid
                  ELSE settings.activeEnvironmentUuid,
                  settings.prefs),
      changed |-> merged.changed \/ setActive]

----------------------------------------------------------------------------
(* ensureInitialState, one step per await *)

DiskInit ==
  /\ dataFilesEnv \in DataFilesValues
  /\ fsWritable \in BOOLEAN
  /\ files \in [PathUniverse -> EnvFileContents]
  /\ \A p \in PathUniverse :
       p \notin Range(resolveDataFiles(parseDataFileNames(dataFilesEnv)))
         => files[p] = EnvAbsent
  /\ settingsFile \in SettingsFileContents

BootInit ==
  /\ pc = "init"
  /\ fileNames = <<>>
  /\ index = 0
  /\ descriptors = <<>>
  /\ uuidCounter = 0

RunInit ==
  /\ run = 1
  /\ envWrites = 0
  /\ settingsWrites = 0
  /\ settingsBefore = settingsFile

\* lines 213-221: mkdir, the file names and the empty descriptor list
BeginInitialState ==
  /\ pc = "init"
  /\ pc' = "files"
  /\ fileNames' = parseDataFileNames(dataFilesEnv)
  /\ index' = 0
  /\ descriptors' = <<>>
  /\ UNCHANGED <<uuidCounter, diskVars, runVars, sanVars, storageVars, supVars, countVars>>

\* one iteration of the loop of ensureInitialState
EnsureEnvironmentFile ==
  /\ pc = "files"
  /\ index < Len(fileNames)
  /\ LET dataFileName == fileNames[index + 1]
         dataFilePath == resolveDataFiles(fileNames)[index + 1]
         outcome == EnvOutcome(files[dataFilePath])
         environment == IF outcome = "create"
                          THEN BuildEnvironment(index, uuidCounter)
                          ELSE files[dataFilePath]
     IN IF outcome = "throw"
          THEN /\ pc' = "rejected"
               /\ UNCHANGED <<index, descriptors, uuidCounter, files, envWrites>>
          ELSE /\ pc' = "files"
               /\ index' = index + 1
               /\ descriptors' =
                    Append(descriptors, Descriptor(environment.uuid, dataFileName))
               /\ IF outcome = "create"
                    THEN /\ files' = writeFile(files, dataFilePath, environment)
                         /\ uuidCounter' = uuidCounter + 1
                         /\ envWrites' = envWrites + 1
                    ELSE UNCHANGED <<files, uuidCounter, envWrites>>
  /\ UNCHANGED <<fileNames, dataFilesEnv, fsWritable, settingsFile, run,
                 settingsWrites, settingsBefore, sanVars, storageVars, supVars, countVars>>

\* ensureSettingsFile(settingsPath, descriptors) and the return of
\* ensureInitialState
EnsureSettingsFile ==
  /\ pc = "files"
  /\ index = Len(fileNames)
  /\ LET settings == parseJsonOrNull(settingsFile)
         reconciled == ReconcileSettings(settings, descriptors)
     IN IF settingsFile.kind = "ioerror"
          THEN /\ pc' = "rejected"
               /\ UNCHANGED <<settingsFile, settingsWrites>>
        ELSE IF IsNoObject(settings)
          THEN IF fsWritable
                 THEN /\ settingsFile' = Stringify(buildDefaultSettings(descriptors))
                      /\ settingsWrites' = settingsWrites + 1
                      /\ pc' = "returned"
                 ELSE /\ pc' = "rejected"
                      /\ UNCHANGED <<settingsFile, settingsWrites>>
        ELSE IF ~reconciled.changed
          THEN /\ pc' = "returned"
               /\ UNCHANGED <<settingsFile, settingsWrites>>
        ELSE IF fsWritable
          THEN /\ settingsFile' = Stringify(reconciled.settings)
               /\ settingsWrites' = settingsWrites + 1
               /\ pc' = "returned"
        ELSE /\ pc' = "rejected"
             /\ UNCHANGED <<settingsFile, settingsWrites>>
  /\ UNCHANGED <<fileNames, index, descriptors, uuidCounter, dataFilesEnv,
                 fsWritable, files, run, envWrites, settingsBefore, sanVars, storageVars, supVars, countVars>>

\* the process is started again with the same configuration, against the
\* disk the previous run left
StartAgain ==
  /\ pc = "returned"
  /\ run < MaxRuns
  /\ run' = run + 1
  /\ pc' = "init"
  /\ fileNames' = <<>>
  /\ index' = 0
  /\ descriptors' = <<>>
  /\ envWrites' = 0
  /\ settingsWrites' = 0
  /\ settingsBefore' = settingsFile
  /\ UNCHANGED <<uuidCounter, diskVars, sanVars, storageVars, supVars, countVars>>

----------------------------------------------------------------------------
(* startCombinedMode: start-up *)

NoCode == -1

SupInit ==
  /\ child = "none"
  /\ childCode = NoCode
  /\ childSignal = "none"
  /\ exitEvent = "none"
  /\ childKilled = FALSE
  /\ server = "none"
  /\ closeCallback = "none"
  /\ shuttingDown = FALSE
  /\ exitCodeArg = NoCode
  /\ procExited = FALSE
  /\ procExitCode = NoCode
  /\ shutdownRuns = 0
  /\ closeCalls = 0
  /\ killCalls = 0
  /\ exitCalls = 0
  /\ events = <<>>

\* process.exit(code)
processExit(code) ==
  /\ procExited' = TRUE
  /\ procExitCode' = code
  /\ exitCalls' = exitCalls + 1

\* await writeDockerRuntimeConfig(API_PREFIX)
WriteDockerRuntimeConfig ==
  /\ pc = "returned"
  /\ pc' = IF uiWritable THEN "configured" ELSE "rejected"
  /\ UNCHANGED <<fileNames, index, descriptors, uuidCounter, diskVars, runVars,
                 sanVars, storageVars, supVars, countVars>>

\* a start-up that does not await ensureInitialState before it spawns
StartupReadyWithoutAwait == pc \in {"init", "configured"}

\* what startCombinedMode has awaited when it spawns the child and listens
StartupReady == pc = "configured"

\* buildDefaultCliArgs(resolvedDataFiles): if (!dataFiles.length) throw
buildDefaultCliArgsThrows(resolvedDataFiles) == Len(resolvedDataFiles) = 0

\* lines 138-196, which run without an await: spawn (whose arguments
\* buildDefaultCliArgs builds first from initialState.dataFiles, the files
\* resolved from DEFAULT_DATA_FILES, or throws), createServer, app.listen,
\* and the registration of every handler
StartServices ==
  /\ StartupReady
  /\ child = "none"
  /\ server = "none"
  /\ IF buildDefaultCliArgsThrows(
          resolveDataFiles(parseDataFileNames(dataFilesEnv)))
       THEN /\ pc' = "rejected"
            /\ UNCHANGED <<child, server>>
       ELSE /\ pc' = "running"
            /\ child' = "running"
            /\ server' = "listening"
  /\ UNCHANGED <<fileNames, index, descriptors, uuidCounter, diskVars, runVars,
                 sanVars, storageVars, uiWritable, childCode, childSignal, exitEvent,
                 childKilled, closeCallback, shuttingDown, exitCodeArg,
                 procExited, procExitCode, countVars>>

\* startCombinedMode().catch(...): the rejection is logged and the process
\* exits with 1
FatalExit ==
  /\ pc = "rejected"
  /\ ~procExited
  /\ pc' = "aborted"
  /\ processExit(1)
  /\ UNCHANGED <<fileNames, index, descriptors, uuidCounter, diskVars, runVars,
                 sanVars, storageVars, uiWritable, child, childCode, childSignal, exitEvent,
                 childKilled, server, closeCallback, shuttingDown, exitCodeArg,
                 shutdownRuns, closeCalls, killCalls, events>>

----------------------------------------------------------------------------
(* startCombinedMode: shutdown and the handlers *)

TERMINATION_SIGNALS == {"SIGINT", "SIGTERM"}

ChildExitCodes == {0, 2}

Event(trigger, arg) == [trigger |-> trigger, arg |-> arg]

\* shutdown without the shuttingDown guard
shutdownUnguarded(exitCode) ==
  /\ shuttingDown' = TRUE
  /\ shutdownRuns' = shutdownRuns + 1
  /\ exitCodeArg' = exitCode
  /\ server' = IF server = "listening" THEN "closing" ELSE server
  /\ closeCallback' = "pending"
  /\ closeCalls' = closeCalls + 1
  /\ IF ~childKilled
       THEN /\ killCalls' = killCalls + 1
            /\ childKilled' = (child = "running")
       ELSE UNCHANGED <<killCalls, childKilled>>

\* const shutdown = (exitCode = 0) => {...}
shutdown(exitCode) ==
  IF shuttingDown
    THEN UNCHANGED <<shuttingDown, exitCodeArg, server, closeCallback,
                     childKilled, shutdownRuns, closeCalls, killCalls>>
    ELSE /\ shuttingDown' = TRUE
         /\ shutdownRuns' = shutdownRuns + 1
         \* server.close(() => process.exit(exitCode))
         /\ exitCodeArg' = exitCode
         /\ server' = IF server = "listening" THEN "closing" ELSE server
         /\ closeCallback' = "pending"
         /\ closeCalls' = closeCalls + 1
         \* if (cliProcess && !cliProcess.killed) cliProcess.kill('SIGTERM')
         /\ IF ~childKilled
              THEN /\ killCalls' = killCalls + 1
                   /\ childKilled' = (child = "running")
              ELSE UNCHANGED <<killCalls, childKilled>>

Handling ==
  /\ pc = "running"
  /\ ~procExited
  /\ Len(events) < MaxTriggers

\* an 'exit' handler that drops the code of the child
ChildExitArgAlwaysZero(code, signal) == 0

\* exit code the 'exit' handler of the child passes to shutdown
ChildExitArg(code, signal) ==
  IF signal # "none" THEN 0 ELSE IF code = NoCode THEN 0 ELSE code

\* process.on(signal, () => shutdown(0))
OnTerminationSignal(signal) ==
  /\ Handling
  /\ events' = Append(events, Event("signal", 0))
  /\ shutdown(0)
  /\ UNCHANGED <<diskVars, bootVars, runVars, sanVars, storageVars, uiWritable, child,
                 childCode, childSignal, exitEvent, procExited, procExitCode,
                 exitCalls>>

\* process.on('uncaughtException', ...)
OnUncaughtException ==
  /\ Handling
  /\ events' = Append(events, Event("uncaughtException", 1))
  /\ shutdown(1)
  /\ UNCHANGED <<diskVars, bootVars, runVars, sanVars, storageVars, uiWritable, child,
                 childCode, childSignal, exitEvent, procExited, procExitCode,
                 exitCalls>>

\* process.on('unhandledRejection', ...)
OnUnhandledRejection ==
  /\ Handling
  /\ events' = Append(events, Event("unhandledRejection", 1))
  /\ shutdown(1)
  /\ UNCHANGED <<diskVars, bootVars, runVars, sanVars, storageVars, uiWritable, child,
                 childCode, childSignal, exitEvent, procExited, procExitCode,
                 exitCalls>>

\* the child ends: on its own with a code, or by a signal (the SIGTERM of
\* shutdown, or a signal from elsewhere); its 'exit' event becomes pending
ChildTerminates ==
  /\ child = "running"
  /\ child' = "exited"
  /\ exitEvent' = "pending"
  /\ \/ \E code \in ChildExitCodes :
          childCode' = code /\ childSignal' = "none"
     \/ \E signal \in {"SIGTERM", "SIGKILL"} :
          childCode' = NoCode /\ childSignal' = signal
  /\ UNCHANGED <<diskVars, bootVars, runVars, sanVars, storageVars, uiWritable, childKilled,
                 server, closeCallback, shuttingDown, exitCodeArg, procExited,
                 procExitCode, countVars>>

\* cliProcess.on('exit', (code, signal) => {...})
OnChildExit ==
  /\ pc = "running"
  /\ ~procExited
  /\ exitEvent = "pending"
  /\ exitEvent' = "handled"
  /\ IF shuttingDown
       THEN /\ events' = Append(events, Event("childExit", NoCode))
            /\ UNCHANGED <<shuttingDown, exitCodeArg, server, closeCallback,
                           childKilled, shutdownRuns, closeCalls, killCalls>>
       ELSE /\ events' = Append(events,
                           Event("childExit", ChildExitArg(childCode, childSignal)))
            /\ shutdown(ChildExitArg(childCode, childSignal))
  /\ UNCHANGED <<diskVars, bootVars, runVars, sanVars, storageVars, uiWritable, child,
                 childCode, childSignal, procExited, procExitCode, exitCalls>>

\* the listener stops listening without server.close having been called;
\* no 'close' or 'error' listener is registered on the server
ListenerCloses ==
  /\ pc = "running"
  /\ ~procExited
  /\ server = "listening"
  /\ Len(events) < MaxTriggers
  /\ server' = "closed"
  /\ events' = Append(events, Event("listenerClose", NoCode))
  /\ UNCHANGED <<diskVars, bootVars, runVars, sanVars, storageVars, uiWritable, child,
                 childCode, childSignal, exitEvent, childKilled, closeCallback,
                 shuttingDown, exitCodeArg, procExited, procExitCode,
                 shutdownRuns, closeCalls, killCalls, exitCalls>>

\* a close callback that exits only once the child has exited
CloseCallbackAwaitingChild ==
  /\ closeCallback = "pending"
  /\ ~procExited
  /\ child = "exited"
  /\ closeCallback' = "called"
  /\ server' = "closed"
  /\ processExit(exitCodeArg)
  /\ UNCHANGED <<diskVars, bootVars, runVars, sanVars, storageVars, uiWritable, child,
                 childCode, childSignal, exitEvent, childKilled, shuttingDown,
                 exitCodeArg, shutdownRuns, closeCalls, killCalls, events>>

\* the callback of server.close fires: () => process.exit(exitCode)
CloseCallback ==
  /\ closeCallback = "pending"
  /\ ~procExited
  /\ closeCallback' = "called"
  /\ server' = "closed"
  /\ processExit(exitCodeArg)
  /\ UNCHANGED <<diskVars, bootVars, runVars, sanVars, storageVars, uiWritable, child,
                 childCode, childSignal, exitEvent, childKilled, shuttingDown,
                 exitCodeArg, shutdownRuns, closeCalls, killCalls, events>>

\* the disks startCombinedMode is started against
SupDiskInit ==
  /\ dataFilesEnv = <<"a">>
  /\ fsWritable \in BOOLEAN
  /\ uiWritable \in BOOLEAN
  /\ files \in [PathUniverse -> EnvFileContents]
  /\ \A p \in PathUniverse :
       p \notin Range(resolveDataFiles(parseDataFileNames(dataFilesEnv)))
         => files[p] = EnvAbsent
  /\ settingsFile \in
       {SettingsAbsent, SettingsContent("ioerror", JsonNull),
        SettingsContent("unparsable", JsonNull),
        SettingsContent("json", JsonValue("object", TRUE, <<>>, "", "custom"))}

\* values of MOCKOON_DATA_FILES that name no file: whitespace, a separator,
\* both
NoFileValues == {<<" ">>, <<",">>, <<" ", ",", " ">>}

\* the disks startCombinedMode is started against with such a value
StartDiskInit ==
  /\ dataFilesEnv \in NoFileValues
  /\ fsWritable \in BOOLEAN
  /\ uiWritable \in BOOLEAN
  /\ files \in [PathUniverse -> EnvFileContents]
  /\ \A p \in PathUniverse :
       p \notin Range(resolveDataFiles(parseDataFileNames(dataFilesEnv)))
         => files[p] = EnvAbsent
  /\ settingsFile \in {SettingsAbsent, SettingsContent("unparsable", JsonNull)}

\* startCombinedMode up to the point where the child and the listener run
StartNext ==
  \/ BeginInitialState
  \/ EnsureEnvironmentFile
  \/ EnsureSettingsFile
  \/ WriteDockerRuntimeConfig
  \/ StartServices
  \/ FatalExit

SupNext ==
  \/ BeginInitialState
  \/ EnsureEnvironmentFile
  \/ EnsureSettingsFile
  \/ WriteDockerRuntimeConfig
  \/ StartServices
  \/ FatalExit
  \/ \E signal \in TERMINATION_SIGNALS : OnTerminationSignal(signal)
  \/ OnUncaughtException
  \/ OnUnhandledRejection
  \/ ChildTerminates
  \/ OnChildExit
  \/ ListenerCloses
  \/ CloseCallback


----------------------------------------------------------------------------
(* Properties of the bootstrap reconciliation *)

ConfiguredPaths == resolveDataFiles(fileNames)

\* uuid of the document of the i-th configured file, as it is on disk
DocumentUuid(i) == files[ConfiguredPaths[i]].uuid

\* the descriptors settings.json lists on disk
ListedDescriptors ==
  IF settingsFile.kind = "json" /\ settingsFile.json.hasEnvs
    THEN settingsFile.json.environments
    ELSE <<>>

DistinctDocuments ==
  \A i, j \in DOMAIN fileNames : i # j => DocumentUuid(i) # DocumentUuid(j)

\* settings.json held no descriptor when the run began, being absent, blank,
\* unparsable, null or a scalar, or an object without descriptors
ZeroPriorDescriptors ==
  \/ settingsBefore.kind \in {"absent", "blank", "unparsable"}
  \/ /\ settingsBefore.kind = "json"
     /\ settingsBefore.json.kind \in {"null", "scalar"}
  \/ /\ settingsBefore.kind = "json"
     /\ settingsBefore.json.kind = "object"
     /\ settingsBefore.json.environments = <<>>

\* C1 (as claimed): a second run of ensureInitialState against the disk the
\* first successful run left performs no environment file write and no
\* settings.json write.
C1_SecondRunWritesNothing ==
  run >= 2 => (envWrites = 0 /\ settingsWrites = 0)

\* C9 (as claimed): after reconciling N configured file names against
\* settings with zero prior descriptors, settings.json lists exactly N
\* descriptors, pairwise distinct in uuid, the i-th one carrying the uuid of
\* the i-th configured document.
C9_Original ==
  (pc = "returned" /\ ZeroPriorDescriptors) =>
    /\ Len(ListedDescriptors) = Len(fileNames)
    /\ \A i, j \in DOMAIN ListedDescriptors :
         i # j => ListedDescriptors[i].uuid # ListedDescriptors[j].uuid
    /\ \A i \in DOMAIN fileNames :
         i \in DOMAIN ListedDescriptors /\ ListedDescriptors[i].uuid = DocumentUuid(i)

\* C9 (amended): the same, provided the configured documents have pairwise
\* distinct uuids (so no file is configured twice).
C9_DescriptorUniqueness ==
  (pc = "returned" /\ ZeroPriorDescriptors /\ DistinctDocuments) =>
    /\ Len(ListedDescriptors) = Len(fileNames)
    /\ \A i, j \in DOMAIN ListedDescriptors :
         i # j => ListedDescriptors[i].uuid # ListedDescriptors[j].uuid
    /\ \A i \in DOMAIN fileNames :
         i \in DOMAIN ListedDescriptors /\ ListedDescriptors[i].uuid = DocumentUuid(i)

\* two distinct documents, one of them created by this run, reconciled into
\* an existing settings object that listed no descriptor
C9_Witness ==
  /\ pc = "returned"
  /\ ZeroPriorDescriptors
  /\ DistinctDocuments
  /\ Len(fileNames) = 2
  /\ envWrites = 1
  /\ settingsBefore.kind = "json"
  /\ settingsBefore.json.kind = "object"
  /\ Len(ListedDescriptors) = 2

\* C10 (as claimed): whenever ensureInitialState has returned, settings.json
\* lists, for every configured file, a descriptor with the uuid of that
\* file's document, whatever settings.json held before.
C10_EveryDocumentListed ==
  pc = "returned" =>
    \A i \in DOMAIN fileNames :
      \E k \in DOMAIN ListedDescriptors : ListedDescriptors[k].uuid = DocumentUuid(i)

\* the descriptors settings.json listed when the run began
PriorListed ==
  IF settingsBefore.kind = "json" /\ settingsBefore.json.hasEnvs
    THEN settingsBefore.json.environments
    ELSE <<>>

\* the path of a descriptor names an existing, readable JSON document of
\* the environments directory
PathNamesDocument(path) ==
  LET filePath == pathJoin(EnvDir, path)
  IN filePath \in DOMAIN files /\ files[filePath].kind = "object"

\* C11 (as claimed): when ensureInitialState returns, every descriptor of
\* settings.json, just resolved or already present, has a path naming an
\* existing, readable file of the environments directory.
C11_Original ==
  pc = "returned" =>
    \A k \in DOMAIN ListedDescriptors : PathNamesDocument(ListedDescriptors[k].path)

\* C11 (amended): when ensureInitialState returns, every descriptor it
\* resolved, and every descriptor of settings.json that this run added or
\* changed, has a path naming an existing, readable file; a descriptor the
\* run found and left as it was is not examined.
C11_ResolvedPathsExist ==
  pc = "returned" =>
    /\ \A i \in DOMAIN descriptors : PathNamesDocument(descriptors[i].path)
    /\ \A k \in DOMAIN ListedDescriptors :
         ListedDescriptors[k] \notin Range(PriorListed)
           => PathNamesDocument(ListedDescriptors[k].path)

\* a run that created a file and appended its descriptor next to a kept
\* descriptor whose file does not exist
C11_Witness ==
  /\ pc = "returned"
  /\ envWrites >= 1
  /\ \E k \in DOMAIN ListedDescriptors :
       /\ ListedDescriptors[k] \notin Range(PriorListed)
       /\ PathNamesDocument(ListedDescriptors[k].path)
  /\ \E k \in DOMAIN ListedDescriptors :
       /\ ListedDescriptors[k] \in Range(PriorListed)
       /\ ~PathNamesDocument(ListedDescriptors[k].path)

\* C12: whenever ensureInitialState has returned and settings.json lists at
\* least one descriptor, activeEnvironmentUuid in settings.json is set, for
\* default settings and for reconciled settings alike.
C12_ActiveEnvironmentSet ==
  (pc = "returned" /\ ListedDescriptors # <<>>) =>
    settingsFile.json.activeEnvironmentUuid # ""

\* reconciled settings that listed a descriptor but no active environment
\* when the run began
C12_Witness ==
  /\ pc = "returned"
  /\ settingsBefore.kind = "json"
  /\ settingsBefore.json.kind = "object"
  /\ PriorListed # <<>>
  /\ settingsBefore.json.activeEnvironmentUuid = ""
  /\ ListedDescriptors # <<>>
  /\ settingsFile.json.activeEnvironmentUuid = descriptors[1].uuid

\* the run reconciled the descriptors into a settings document that
\* existed and parsed to an object (the else branch of ensureSettingsFile)
ReconciledExisting ==
  /\ pc = "returned"
  /\ settingsBefore.kind = "json"
  /\ ~IsNoObject(settingsBefore.json)

\* what reconciliation may do to the descriptor list and must leave alone:
\* the descriptors found keep their place, uuid and other fields, a path
\* changes only to the path resolved for that uuid, what is appended is a
\* resolved descriptor of a uuid not listed before, and the other settings
\* fields keep their values
ReconciliationFrame ==
  /\ Len(ListedDescriptors) >= Len(PriorListed)
  /\ \A i \in DOMAIN PriorListed :
       /\ ListedDescriptors[i].uuid = PriorListed[i].uuid
       /\ ListedDescriptors[i].cloud = PriorListed[i].cloud
       /\ ListedDescriptors[i].lastServerHash = PriorListed[i].lastServerHash
       /\ \/ ListedDescriptors[i].path = PriorListed[i].path
          \/ \E d \in Range(descriptors) :
               d.uuid = PriorListed[i].uuid /\ d.path = ListedDescriptors[i].path
  /\ \A k \in DOMAIN ListedDescriptors :
       k > Len(PriorListed) =>
         /\ ListedDescriptors[k] \in Range(descriptors)
         /\ \A i \in DOMAIN PriorListed :
              PriorListed[i].uuid # ListedDescriptors[k].uuid
  /\ settingsFile.kind = "json"
  /\ settingsFile.json.kind = settingsBefore.json.kind
  /\ settingsFile.json.prefs = settingsBefore.json.prefs
  /\ settingsBefore.json.activeEnvironmentUuid # "" =>
       settingsFile.json.activeEnvironmentUuid =
         settingsBefore.json.activeEnvironmentUuid

\* C13 (as claimed): reconciling against an existing parsable settings
\* document only appends descriptors of new uuids and updates paths in
\* place, leaves every other field alone, and no uuid ends up with more than
\* one descriptor.
C13_Original ==
  ReconciledExisting =>
    /\ ReconciliationFrame
    /\ \A i, j \in DOMAIN ListedDescriptors :
         i # j => ListedDescriptors[i].uuid # ListedDescriptors[j].uuid

\* C13 (amended): the same frame, and reconciliation adds no second
\* descriptor for a uuid: two descriptors share a uuid afterwards only if
\* both were listed, with that uuid, before the run.
C13_ReconciliationFrame ==
  ReconciledExisting =>
    /\ ReconciliationFrame
    /\ \A i, j \in DOMAIN ListedDescriptors :
         (i # j /\ ListedDescriptors[i].uuid = ListedDescriptors[j].uuid)
           => (i \in DOMAIN PriorListed /\ j \in DOMAIN PriorListed)

\* a run that updated the path of a listed descriptor in place and appended
\* the descriptor of a uuid that was not listed
C13_Witness ==
  /\ ReconciledExisting
  /\ settingsBefore.json.kind = "object"
  /\ Len(ListedDescriptors) > Len(PriorListed)
  /\ \E i \in DOMAIN PriorListed : ListedDescriptors[i].path # PriorListed[i].path

----------------------------------------------------------------------------
(* Properties of start-up and supervision *)

\* every configured file holds a document with a uuid, and settings.json
\* holds the reconciled settings
BootstrapVerified ==
  /\ fileNames # <<>>
  /\ Len(descriptors) = Len(fileNames)
  /\ \A i \in DOMAIN fileNames :
       /\ files[ConfiguredPaths[i]].kind = "object"
       /\ files[ConfiguredPaths[i]].uuid # ""
       /\ descriptors[i].uuid = files[ConfiguredPaths[i]].uuid
  /\ settingsFile.kind = "json"
  /\ settingsFile.json.kind = "object"

\* C2: the child is spawned and the listener started only after
\* ensureInitialState has returned successfully; when start-up rejects,
\* neither is ever started and the process exits with code 1.
C2_StartAfterBootstrap ==
  /\ (child # "none" \/ server # "none") => BootstrapVerified
  /\ pc \in {"rejected", "aborted"} => (child = "none" /\ server = "none")
  /\ pc = "rejected" => ENABLED FatalExit
  /\ pc = "aborted" => (procExited /\ procExitCode = 1)

\* start-up aborted with code 1 on an unparsable environment file
C2_Witness ==
  /\ pc = "aborted"
  /\ procExitCode = 1
  /\ child = "none"
  /\ \E p \in PathUniverse : files[p].kind = "unparsable"

IsRequest(e) == e.arg # NoCode

\* the calls of shutdown, in order
Requests == SelectSeq(events, IsRequest)

\* C3: under any number and interleaving of triggers the body of shutdown
\* runs at most once: one server.close, one kill, one process.exit, and the
\* exit code is the one the first trigger chose.
C3_ShutdownOnce ==
  /\ shutdownRuns <= 1
  /\ closeCalls <= 1
  /\ killCalls <= 1
  /\ exitCalls <= 1
  /\ shuttingDown => (Requests # <<>> /\ exitCodeArg = Requests[1].arg)
  /\ (procExited /\ pc = "running") => procExitCode = Requests[1].arg

\* the process has exited after two triggers that chose different codes
C3_Witness ==
  /\ procExited
  /\ pc = "running"
  /\ Len(Requests) >= 2
  /\ Requests[1].arg # Requests[2].arg

FirstTrigger == IF Requests = <<>> THEN "none" ELSE Requests[1].trigger

\* the child's own exit code, 0 when it reported none
ChildOwnCode == IF childCode = NoCode THEN 0 ELSE childCode

\* C4 (as claimed): the exit code of a shutdown is 0 when a termination
\* signal caused it and the child's own exit code (0 if none) otherwise, for
\* every trigger.
C4_Original ==
  (procExited /\ pc = "running") =>
    procExitCode = (IF FirstTrigger = "signal" THEN 0 ELSE ChildOwnCode)

\* C4 (amended): a failed start-up exits with 1; a shutdown exits with 0
\* when a termination signal caused it, with the child's own exit code (0 if
\* it has none or a signal ended it) when the child's exit caused it, and
\* with 1 when an uncaught exception or unhandled rejection caused it.
C4_ExitCodePolicy ==
  /\ pc = "aborted" => procExitCode = 1
  /\ (procExited /\ pc = "running") =>
       procExitCode =
         (CASE FirstTrigger = "signal" -> 0
            [] FirstTrigger = "childExit" ->
                 (IF childSignal # "none" THEN 0 ELSE ChildOwnCode)
            [] FirstTrigger \in {"uncaughtException", "unhandledRejection"} -> 1
            [] OTHER -> NoCode)

\* the process has exited after an uncaught exception came first, while the
\* child had exited with another code
C4_Witness ==
  /\ procExited
  /\ pc = "running"
  /\ FirstTrigger = "uncaughtException"
  /\ procExitCode = 1
  /\ child = "exited"
  /\ childCode = 0

\* C5 (as claimed): once Running, never has exactly one of the listener and
\* the child ended (its exit handled) with no shutdown in progress, and the
\* process never exits while the child is still running.
C5_LifecycleCoupling ==
  /\ (pc = "running" /\ ((exitEvent = "handled") # (server = "closed")))
       => shuttingDown
  /\ (pc = "running" /\ procExited) => child # "running"

\* the second half of C5 alone
C5_NoExitWhileChildRuns ==
  (pc = "running" /\ procExited) => child # "running"

\* C6 (as claimed): every trigger delivered in the Running state (signal,
\* child exit, uncaught exception or unhandled rejection, listener closing)
\* executes the body of shutdown.
C6_TriggersStartShutdown ==
  (pc = "running" /\ events # <<>>) => (shuttingDown /\ shutdownRuns >= 1)

\* the triggers (a), (b) and (c) of C6 alone
C6_HandledTriggersStartShutdown ==
  (pc = "running" /\ \E i \in DOMAIN events : events[i].trigger # "listenerClose")
    => (shuttingDown /\ shutdownRuns >= 1)

\* C7: once shutdown has started the process exits with the chosen code as
\* soon as the close callback fires, whether or not the child has exited;
\* the callback firing, every shutdown reaches Terminated.
C7_ShutdownTerminates ==
  /\ shuttingDown ~> procExited
  /\ []((closeCallback = "pending" /\ ~procExited) => ENABLED CloseCallback)
  /\ []((procExited /\ pc = "running") => procExitCode = exitCodeArg)

\* the process has exited while the child, sent SIGTERM, is still running
C7_Witness ==
  /\ procExited
  /\ pc = "running"
  /\ shuttingDown
  /\ childKilled
  /\ child = "running"

----------------------------------------------------------------------------
(* Properties of the storage key sanitizer *)

PasswdJson == <<"p", "a", "s", "s", "w", "d", ".", "j", "s", "o", "n">>

\* C8: ensureJsonExtension yields a non-empty name without "/" or "\" that
\* ends in ".json" (case-insensitive), "environment.json" for an empty input
\* or an empty final segment, so every path a route touches is a direct
\* child of the environments directory; "../../etc/passwd" gives
\* "passwd.json".
C8_KeyConfinement ==
  reqMethod # "none" =>
    /\ reqFileName # <<>>
    /\ \A i \in DOMAIN reqFileName : reqFileName[i] \notin {"/", "\\"}
    /\ endsWith(toLowerCase(reqFileName), DotJson)
    /\ (reqId = <<>> \/ reqId[Len(reqId)] \in {"/", "\\"})
         => reqFileName = DefaultFileName
    /\ reqFilePath = Append(EnvDir, reqFileName)
    /\ reqId = TraversalId => reqFileName = PasswdJson

\* a DELETE of "../../etc/passwd" has resolved its file
C8_Witness ==
  /\ reqMethod = "DELETE"
  /\ reqId = TraversalId
  /\ reqFilePath = Append(EnvDir, PasswdJson)

\* a document ensureEnvironmentFile has synthesized: its uuid is a
\* generated one
Synthesized(content) ==
  content.kind = "object" /\ content.uuid \in Range(FreshUuids)

\* an iteration of the loop that synthesizes a document does so for the
\* file at position index, with port DEFAULT_PORT + index, and the next
\* iteration is that of position index + 1
SynthesizedAtPosition ==
  (pc = "files" /\ files' # files) =>
    LET dataFilePath == resolveDataFiles(fileNames)[index + 1]
    IN /\ \A p \in PathUniverse : p # dataFilePath => files'[p] = files[p]
       /\ Synthesized(files'[dataFilePath])
       /\ files'[dataFilePath].port = DEFAULT_PORT + index
       /\ index' = index + 1
       /\ fileNames' = fileNames

SynthesizedPortsDiffer ==
  \A p, q \in PathUniverse :
    (p # q /\ Synthesized(files[p]) /\ Synthesized(files[q])) =>
      files[p].port # files[q].port

\* C25: a document synthesized for the configured file at position i is
\* persisted with port DEFAULT_PORT + i, the files being processed in list
\* order, and two synthesized documents never share a port
C25_PortAssignment == [][SynthesizedAtPosition]_vars /\ []SynthesizedPortsDiffer

\* both configured files have been synthesized, with the ports of positions
\* 0 and 1
C25_Witness ==
  /\ Len(fileNames) = 2
  /\ index = 2
  /\ LET resolved == resolveDataFiles(fileNames)
     IN /\ resolved[1] # resolved[2]
        /\ Synthesized(files[resolved[1]])
        /\ Synthesized(files[resolved[2]])
        /\ files[resolved[1]].port = DEFAULT_PORT
        /\ files[resolved[2]].port = DEFAULT_PORT + 1

\* the data-files setting names no file: every item is empty once trimmed
NamesNoFile(value) ==
  LET items == SplitOn(value, ",")
  IN \A n \in DOMAIN items : trim(items[n]) = <<>>

\* C24: when the data-files setting names no file, combined-mode startup is
\* fatal: no child is spawned, no listener is started, and the process exits
\* with a code other than 0
C24_EmptyListIsFatal ==
  NamesNoFile(dataFilesEnv) =>
    /\ child = "none"
    /\ server = "none"
    /\ procExited => procExitCode # 0

----------------------------------------------------------------------------
(* Storage HTTP API: JSON values, the text of a file, the pretty flag *)

MaxRequests == 3

MaxPrettyRequests == 2

\* req.body as express.json leaves it: undefined when the request carried
\* no JSON body, otherwise the parsed array or object.  Of an environment
\* object the model keeps uuid and port; {} is the object without members.
Undefined == EnvContent("undefined", "", 0)

JsonArray == EnvContent("array", "", 0)

EmptyObject == EnvContent("object", "", 0)

EnvironmentBodies ==
  {EnvContent("object", "u1", p) : p \in {DEFAULT_PORT, DEFAULT_PORT + 1}}

RequestBodies == {Undefined, JsonArray} \cup EnvironmentBodies

\* The content of a file: absent, a text that is not JSON (an empty or
\* partly written file included), or the JSON text of a value, whose members
\* stand on lines of their own indented by `indent` spaces, or, with indent
\* 0, on one line.
FileText(kind, json, indent) == [kind |-> kind, json |-> json, indent |-> indent]

NoFile == FileText("absent", Undefined, 0)

Unparsable == FileText("unparsable", Undefined, 0)

\* JSON.stringify(payload, []): the replacer array keeps no member
JSONstringifyNoMembers(value, space) == FileText("text", EmptyObject, 0)

\* JSON.stringify(payload, null, space); "{}" whatever the space
JSONstringify(value, space) ==
  FileText("text", value, IF value = EmptyObject THEN 0 ELSE space)

\* JSON.parse(content): the value, or a SyntaxError
JSONparse(content) ==
  IF content.kind = "text"
    THEN [ok |-> TRUE, value |-> content.json]
    ELSE [ok |-> FALSE, value |-> Undefined]

\* req.query.pretty: undefined, a string, or an array (?pretty=1&pretty=1)
QueryValue(kind, value) == [kind |-> kind, value |-> value]

NoQuery == QueryValue("undefined", <<>>)

PrettyQueries ==
  {NoQuery, QueryValue("array", <<>>)}
  \cup {QueryValue("string", v) :
          v \in {<<"1">>, <<"T", "r", "u", "e">>, <<"0">>}}

\* an isPretty that takes a missing flag for compact output
isPrettyDefaultCompact(query) ==
  /\ query.kind = "string"
  /\ \/ query.value = <<"1">>
     \/ toLowerCase(query.value) = <<"t", "r", "u", "e">>

isPretty(query) ==
  IF query.kind = "undefined" THEN TRUE
  ELSE IF query.kind = "string"
    THEN \/ query.value = <<"1">>
         \/ toLowerCase(query.value) = <<"t", "r", "u", "e">>
  ELSE FALSE

\* pretty ? 2 : undefined
Space(pretty) == IF pretty THEN 2 ELSE 0

\* identifiers of requests: a name, and a traversal attempt that the
\* sanitizer maps to the file of that name
ApiIds == {<<"a">>, <<".", ".", "/", "a", ".", "j", "s", "o", "n">>}

ApiFileNames == {ensureJsonExtension(id) : id \in ApiIds}

ApiPaths == {pathJoin(EnvDir, n) : n \in ApiFileNames}

\* stands for settingsPath among the file names
SettingsFileName == <<"settings">>

\* the content of the file a route reads or writes
ReadFile(fileName) ==
  IF fileName = SettingsFileName THEN settingsFile
  ELSE files[pathJoin(EnvDir, fileName)]

\* the body of a response: empty, a JSON value, or {message}
ResponseBody(kind, value, message) ==
  [kind |-> kind, value |-> value, message |-> message]

EmptyBody == ResponseBody("empty", Undefined, "")

JsonBody(value) == ResponseBody("json", value, "")

MessageBody(message) == ResponseBody("message", Undefined, message)

\* what is known of a file from the requests served: nothing, that a DELETE
\* left it absent, or the value a PUT wrote
Known(kind, json) == [kind |-> kind, json |-> json]

Unknown == Known("unknown", Undefined)

Deleted == Known("deleted", Undefined)

Written(json) == Known("written", json)

\* a response together with the request it answers; before and after are
\* the content of the file named, when the handler began and when it
\* answered, and known is lastWrite of that file as the handler found it
\* (for a PUT answered 204: as the PUT left it)
Response(method, route, fileName, query, payload, status, body, before, after, known) ==
  [method |-> method, route |-> route, fileName |-> fileName, query |-> query,
   payload |-> payload, status |-> status, body |-> body, before |-> before,
   after |-> after, known |-> known]

NoResponse ==
  Response("none", "none", <<>>, NoQuery, Undefined, 0, EmptyBody, NoFile,
           NoFile, Unknown)

\* an fsp.writeFile in flight
Writer(route, fileName, query, payload, text, before, disturbed, unlinked) ==
  [route |-> route, fileName |-> fileName, query |-> query,
   payload |-> payload, text |-> text, before |-> before,
   disturbed |-> disturbed, unlinked |-> unlinked]

WritersOf(fileName) == {i \in DOMAIN writers : writers[i].fileName = fileName}

\* requests whose handler has begun
Begun == served + Len(writers)

ApiIdle ==
  /\ writers = <<>>
  /\ response = NoResponse
  /\ served = 0
  /\ lastWrite = [n \in ApiFileNames \cup {SettingsFileName} |-> Unknown]

----------------------------------------------------------------------------
(* Storage HTTP API: the routes *)

\* router.get('/settings')
GetSettings ==
  /\ LET content == settingsFile
         parsed == JSONparse(content)
         status == IF content.kind = "absent" THEN 404
                   ELSE IF parsed.ok THEN 200 ELSE 500
         body == IF status = 404 THEN EmptyBody
                 ELSE IF status = 200 THEN JsonBody(parsed.value)
                 ELSE MessageBody("Unable to read settings file")
     IN response' = Response("GET", "settings", SettingsFileName, NoQuery,
                             Undefined, status, body, content, content,
                             lastWrite[SettingsFileName])
  /\ served' = served + 1
  /\ UNCHANGED <<writers, lastWrite, diskVars, runtimeVars, hashVars, clientVars, idbVars>>

\* router.get('/environments/:id')
GetEnvironment(id) ==
  /\ LET fileName == ensureJsonExtension(id)
         filePath == pathJoin(EnvDir, fileName)
         content == files[filePath]
         parsed == JSONparse(content)
         status == IF content.kind = "absent" THEN 404
                   ELSE IF parsed.ok THEN 200 ELSE 500
         body == IF status = 404 THEN EmptyBody
                 ELSE IF status = 200 THEN JsonBody(parsed.value)
                 ELSE MessageBody("Environment file is not valid JSON")
     IN response' = Response("GET", "environment", fileName, NoQuery,
                             Undefined, status, body, content, content,
                             lastWrite[fileName])
  /\ served' = served + 1
  /\ UNCHANGED <<writers, lastWrite, diskVars, runtimeVars, hashVars, clientVars, idbVars>>

\* a handler answers without having begun a write
Answer(method, route, fileName, query, payload, status, message) ==
  /\ response' = Response(method, route, fileName, query, payload, status,
                          MessageBody(message), ReadFile(fileName),
                          ReadFile(fileName), lastWrite[fileName])
  /\ served' = served + 1
  /\ UNCHANGED <<writers, lastWrite, diskVars>>

\* fsp.writeFile has opened and truncated the file; the handler awaits it.
\* Writes of the same file that overlap disturb each other.
BeginWrite(route, fileName, query, payload, text) ==
  /\ writers' =
       Append([i \in DOMAIN writers |->
                 IF writers[i].fileName = fileName
                   THEN [writers[i] EXCEPT !.disturbed = TRUE]
                   ELSE writers[i]],
              Writer(route, fileName, query, payload, text, ReadFile(fileName),
                     WritersOf(fileName) # {}, FALSE))
  /\ lastWrite' = [lastWrite EXCEPT ![fileName] = Unknown]
  /\ IF route = "settings"
       THEN /\ settingsFile' = Unparsable
            /\ UNCHANGED files
       ELSE /\ files' = writeFile(files, pathJoin(EnvDir, fileName), Unparsable)
            /\ UNCHANGED settingsFile
  /\ UNCHANGED <<response, served, dataFilesEnv, fsWritable>>

\* router.put('/settings'), up to the await
PutSettings(query, reqBody) ==
  /\ LET pretty == isPretty(query)
         payload == IF reqBody = Undefined THEN EmptyObject ELSE reqBody
         text == JSONstringify(payload, Space(pretty))
     IN IF fsWritable
          THEN BeginWrite("settings", SettingsFileName, query, payload, text)
          ELSE Answer("PUT", "settings", SettingsFileName, query, payload, 500,
                      "Unable to write settings file")
  /\ UNCHANGED <<runtimeVars, hashVars, clientVars, idbVars>>

\* router.put('/environments/:id'), up to the await
PutEnvironment(id, query, reqBody) ==
  /\ LET fileName == ensureJsonExtension(id)
         pretty == isPretty(query)
         payload == reqBody
         text == JSONstringify(payload, Space(pretty))
     IN IF payload = Undefined \/ payload.kind \notin {"object", "array"}
          THEN Answer("PUT", "environment", fileName, query, payload, 400,
                      "Environment payload is required")
        ELSE IF fsWritable
          THEN BeginWrite("environment", fileName, query, payload, text)
        ELSE Answer("PUT", "environment", fileName, query, payload, 500,
                    "Unable to write environment file")
  /\ UNCHANGED <<runtimeVars, hashVars, clientVars, idbVars>>

\* the text a finished fsp.writeFile can leave in the file: its own, unless
\* another write of the same file overlapped it
WrittenTexts(w) == IF w.disturbed THEN {w.text, Unparsable} ELSE {w.text}

\* fsp.writeFile of the i-th write in flight resolves, and its PUT handler
\* answers 204
WriteFileEnd(i) ==
  /\ i \in DOMAIN writers
  /\ LET w == writers[i]
         known == IF w.disturbed \/ w.unlinked THEN Unknown
                  ELSE Written(w.payload)
         route == IF w.route = "settings" THEN "settings" ELSE "environment"
     IN /\ \E content \in WrittenTexts(w) :
             LET after == IF w.unlinked THEN ReadFile(w.fileName) ELSE content
             IN /\ IF w.route = "settings"
                     THEN /\ settingsFile' = after
                          /\ UNCHANGED files
                     ELSE /\ files' = writeFile(files,
                                                pathJoin(EnvDir, w.fileName),
                                                after)
                          /\ UNCHANGED settingsFile
                /\ response' = Response("PUT", route, w.fileName, w.query,
                                        w.payload, 204, EmptyBody, w.before,
                                        after, known)
        /\ lastWrite' = [lastWrite EXCEPT ![w.fileName] = known]
  /\ writers' = [j \in 1..(Len(writers) - 1) |->
                   IF j < i THEN writers[j] ELSE writers[j + 1]]
  /\ served' = served + 1
  /\ UNCHANGED <<dataFilesEnv, fsWritable, runtimeVars, hashVars, clientVars, idbVars>>

\* an fsp.rm that resolves without removing the file
rmKeepsFile(fs, filePath) == fs

\* fsp.rm(filePath) of an existing file
rm(fs, filePath) == [fs EXCEPT ![filePath] = NoFile]

\* router.delete('/environments/:id'); fsp.rm unlinks the file under the
\* writes in flight, which then no longer reach the path
DeleteEnvironment(id) ==
  LET fileName == ensureJsonExtension(id)
      filePath == pathJoin(EnvDir, fileName)
      content == files[filePath]
      status == IF content.kind = "absent" THEN 404
                ELSE IF fsWritable THEN 204 ELSE 500
      body == IF status = 500
                THEN MessageBody("Unable to delete environment file")
                ELSE EmptyBody
      removed == IF status = 204 THEN rm(files, filePath) ELSE files
  IN /\ files' = removed
     /\ writers' = [i \in DOMAIN writers |->
                      IF writers[i].fileName = fileName /\ status = 204
                        THEN [writers[i] EXCEPT !.disturbed = TRUE,
                                                !.unlinked = TRUE]
                        ELSE writers[i]]
     /\ lastWrite' = [lastWrite EXCEPT ![fileName] =
                        IF status # 500 /\ WritersOf(fileName) = {}
                          THEN Deleted ELSE Unknown]
     /\ response' = Response("DELETE", "environment", fileName, NoQuery,
                             Undefined, status, body, content,
                             removed[filePath], lastWrite[fileName])
     /\ served' = served + 1
     /\ UNCHANGED <<dataFilesEnv, fsWritable, settingsFile, runtimeVars, hashVars, clientVars, idbVars>>

\* the environment routes, for a bounded number of requests; the pretty flag
\* is absent or "0"
ApiQueries == {NoQuery, QueryValue("string", <<"0">>)}

ApiNext ==
  \/ /\ Begun < MaxRequests
     /\ \E id \in ApiIds : GetEnvironment(id)
  \/ /\ Begun < MaxRequests
     /\ \E id \in ApiIds, query \in ApiQueries, reqBody \in RequestBodies :
          PutEnvironment(id, query, reqBody)
  \/ /\ Begun < MaxRequests
     /\ \E id \in ApiIds : DeleteEnvironment(id)
  \/ \E i \in DOMAIN writers : WriteFileEnd(i)

\* the routes that write, for every value of the pretty flag, and the
\* settings routes
PrettyNext ==
  \/ /\ Begun < MaxPrettyRequests
     /\ GetSettings
  \/ /\ Begun < MaxPrettyRequests
     /\ \E query \in PrettyQueries, reqBody \in {Undefined, JsonArray} :
          PutSettings(query, reqBody)
  \/ /\ Begun < MaxPrettyRequests
     /\ \E query \in PrettyQueries, reqBody \in EnvironmentBodies :
          PutEnvironment(<<"a">>, query, reqBody)
  \/ \E i \in DOMAIN writers : WriteFileEnd(i)

\* the disk when the listener starts: each file absent, hand-edited into
\* something that is no JSON, or holding an environment
ApiDiskInit ==
  /\ dataFilesEnv = <<"a">>
  /\ fsWritable \in BOOLEAN
  /\ files \in [ApiPaths -> {NoFile, Unparsable,
                             JSONstringify(EnvContent("object", "u1", DEFAULT_PORT), 2)}]
  /\ settingsFile \in {NoFile, JSONstringify(JsonArray, 0)}

----------------------------------------------------------------------------
(* Properties of the storage HTTP API *)

\* C14: a GET of an environment, after a PUT of an object to the same
\* sanitized file was answered 204 and with no other PUT or DELETE of that
\* file since that PUT began, is answered 200 with the JSON value that was
\* PUT, whatever the pretty flag of the PUT.
C14_RoundTrip ==
  (/\ response.method = "GET"
   /\ response.route = "environment"
   /\ response.known.kind = "written"
   /\ response.known.json.kind = "object") =>
    /\ response.status = 200
    /\ response.body = JsonBody(response.known.json)

\* a GET answered with the environment that a compact PUT had stored over
\* another content
C14_Witness ==
  /\ response.method = "GET"
  /\ response.route = "environment"
  /\ response.known = Written(EnvContent("object", "u1", DEFAULT_PORT + 1))
  /\ response.before.indent = 0
  /\ response.status = 200

\* C15, on each response: a GET or DELETE of a missing file is answered 404
\* with an empty body and leaves the file missing; a DELETE of an existing
\* file, the disk permitting, is answered 204 and leaves it missing; and a
\* GET or DELETE after a DELETE, with no PUT of that file in flight or
\* begun since, is answered 404.
NotFoundSemantics ==
  (response.route = "environment" /\ response.method \in {"GET", "DELETE"}) =>
    /\ response.before.kind = "absent" =>
         /\ response.status = 404
         /\ response.body = EmptyBody
         /\ response.after = response.before
    /\ response.status = 404 => response.before.kind = "absent"
    /\ (response.method = "DELETE" /\ response.before.kind # "absent"
        /\ fsWritable) =>
         /\ response.status = 204
         /\ response.after = NoFile
    /\ response.known.kind = "deleted" => response.status = 404

\* C15, on each step: a request answered 404 changes no file
NotFoundChangesNothing ==
  (served' = served + 1 /\ response'.status = 404) =>
    UNCHANGED <<files, settingsFile>>

\* C15: GET and DELETE of a missing sanitized file answer 404 with an empty
\* body and change nothing; DELETE of an existing file answers 204 and
\* removes it, after which GET and DELETE of it answer 404 until a PUT.
C15_NotFound == []NotFoundSemantics /\ [][NotFoundChangesNothing]_vars

\* a DELETE answered 404 after an earlier DELETE had removed the file
C15_Witness ==
  /\ response.method = "DELETE"
  /\ response.route = "environment"
  /\ response.status = 404
  /\ response.known = Deleted
  /\ served >= 2

\* C16 (as claimed): PUT environments/:id answers 400 whenever the body is
\* missing or is not an object, and then leaves the file as it was; it
\* answers 204 only for an object body.
C16_RejectsNonObjects ==
  (response.method = "PUT" /\ response.route = "environment") =>
    /\ response.payload.kind # "object" =>
         (response.status = 400 /\ response.after = response.before)
    /\ response.status = 204 => response.payload.kind = "object"

\* the pretty flag as documented: absent, or "1" or "true" in any case
DocumentedPretty(query) ==
  \/ query.kind = "undefined"
  \/ /\ query.kind = "string"
     /\ toLowerCase(query.value) \in {<<"1">>, <<"t", "r", "u", "e">>}

\* C17: a PUT of settings or of an environment writes the payload as
\* 2-space-indented JSON when the pretty flag is absent, "1" or "true" in
\* any case, and as compact JSON for any other value of the flag.
C17_PrettyFlag ==
  /\ \A i \in DOMAIN writers :
       writers[i].text =
         JSONstringify(writers[i].payload,
                       IF DocumentedPretty(writers[i].query) THEN 2 ELSE 0)
  /\ (/\ response.method = "PUT"
      /\ response.status = 204
      /\ response.known.kind = "written") =>
       response.after =
         JSONstringify(response.payload,
                       IF DocumentedPretty(response.query) THEN 2 ELSE 0)

\* a PUT of settings with pretty=True answered 204, the file indented
C17_Witness ==
  /\ response.method = "PUT"
  /\ response.route = "settings"
  /\ response.status = 204
  /\ response.query = QueryValue("string", <<"T", "r", "u", "e">>)
  /\ response.known.kind = "written"
  /\ response.after.indent = 2
  /\ settingsFile = response.after

\* a GET answered while a PUT of the same file is in flight answers 200 with
\* the document stored before that PUT or with the document it writes (404
\* if there was no file before it)
AtomicRead ==
  (/\ served' = served + 1
   /\ response'.method = "GET"
   /\ WritersOf(response'.fileName) # {}) =>
    \E i \in WritersOf(response'.fileName) :
      \/ /\ response'.status = 200
         /\ \/ response'.body = JsonBody(writers[i].payload)
            \/ /\ JSONparse(writers[i].before).ok
               /\ response'.body = JsonBody(JSONparse(writers[i].before).value)
      \/ /\ response'.status = 404
         /\ writers[i].before = NoFile

\* once every PUT of a file has been answered, the file holds one of the
\* bodies written
PutsLeaveOneBody ==
  (/\ response.method = "PUT"
   /\ response.status = 204
   /\ WritersOf(response.fileName) = {}) =>
    response.after # Unparsable

\* C27: a GET that overlaps a PUT to the same key answers 200 with the
\* document stored before or the document being written, never 500 or
\* partial content, and overlapping PUTs to one key leave the file equal to
\* one of their bodies
C27_AtomicReadWrite == [][AtomicRead]_vars /\ []PutsLeaveOneBody

----------------------------------------------------------------------------
(* MainApiService: storage keys, URLs, and one request of the networked    *)
(* backend reply by the storage API                                       *)

MaxInvokes == 3

\* a uuid, character by character, as it appears in a path or a key
UuidChars(uuid) ==
  CASE uuid = "u1" -> <<"u", "1">>
    [] uuid = "u2" -> <<"u", "2">>
    [] OTHER -> <<>>

ensureStorageKey(value) ==
  IF value = <<>> THEN <<>>
  ELSE LET lastSegment == LastSegment(ReplaceBackslashes(value))
           sanitized == StripDisallowed(lastSegment)
       IN IF sanitized # <<>> THEN sanitized ELSE lastSegment

\* string.replace(/\.json$/i, '')
RemoveJsonSuffix(string) ==
  IF endsWith(toLowerCase(string), DotJson)
    THEN SubSeq(string, 1, Len(string) - Len(DotJson))
    ELSE string

\* buildStorageFilePath(name) with the storage API:
\* `${sanitized || 'environment'}.json`
buildStorageFilePath(name) ==
  LET sanitized == RemoveJsonSuffix(ensureStorageKey(name))
  IN IF sanitized # <<>> THEN sanitized \o DotJson ELSE DefaultFileName

\* C26: sanitization is idempotent: ensureJsonExtension leaves the file name
\* it has produced unchanged, and the client's ensureStorageKey leaves the
\* storage file name buildStorageFilePath has produced unchanged
C26_SanitizationIdempotent ==
  reqMethod # "none" =>
    /\ ensureJsonExtension(reqFileName) = reqFileName
    /\ ensureStorageKey(buildStorageFilePath(reqId)) = buildStorageFilePath(reqId)

\* the characters encodeURIComponent escapes, among those of the model
PercentCodes == [c \in {" ", "/", "\\"} |->
                   CASE c = " " -> "%20" [] c = "/" -> "%2F" [] c = "\\" -> "%5C"]

encodeURIComponent(key) ==
  [i \in DOMAIN key |->
     IF key[i] \in DOMAIN PercentCodes THEN PercentCodes[key[i]] ELSE key[i]]

\* req.params.id: express decodes the path segment
decodeURIComponent(segment) ==
  [i \in DOMAIN segment |->
     IF \E c \in DOMAIN PercentCodes : PercentCodes[c] = segment[i]
       THEN CHOOSE c \in DOMAIN PercentCodes : PercentCodes[c] = segment[i]
       ELSE segment[i]]

\* a request as fetch sends it: the path segment after /environments/ (none
\* for /settings), the query string and the JSON body
Request(method, route, segment, query, body) ==
  [method |-> method, route |-> route, segment |-> segment, query |-> query,
   body |-> body]

\* if (pretty) url += '?pretty=1': nothing is appended otherwise
PrettyQuery(pretty) == IF pretty THEN QueryValue("string", <<"1">>) ELSE NoQuery

\* fetch(buildEnvironmentUrl(path, pretty), {method, body})
EnvironmentRequest(method, path, pretty, body) ==
  Request(method, "environment", encodeURIComponent(ensureStorageKey(path)),
          PrettyQuery(pretty), body)

\* fetch(buildSettingsUrl(pretty), {method, body})
SettingsRequest(method, pretty, body) ==
  Request(method, "settings", <<>>, PrettyQuery(pretty), body)

\* body: JSON.stringify(data), which express.json parses into req.body
SentBody(data) == JSONparse(JSONstringify(data, 0)).value

\* what the storage API answers to a request and what it leaves on disk,
\* no other request being reply meanwhile
Served(status, value, fs, settings) ==
  [status |-> status, value |-> value, files |-> fs, settingsFile |-> settings]

Serve(req, fs, settings) ==
  LET fileName == ensureJsonExtension(decodeURIComponent(req.segment))
      filePath == pathJoin(EnvDir, fileName)
      content == IF req.route = "settings" THEN settings ELSE fs[filePath]
      parsed == JSONparse(content)
      space == Space(isPretty(req.query))
  IN CASE req.method = "GET" ->
            Served(IF content.kind = "absent" THEN 404
                   ELSE IF parsed.ok THEN 200 ELSE 500,
                   parsed.value, fs, settings)
       [] req.method = "PUT" /\ req.route = "settings" ->
            IF fsWritable
              THEN Served(204, Undefined, fs,
                          JSONstringify(IF req.body = Undefined THEN EmptyObject
                                        ELSE req.body, space))
              ELSE Served(500, Undefined, fs, settings)
       [] req.method = "PUT" /\ req.route = "environment" ->
            IF req.body = Undefined \/ req.body.kind \notin {"object", "array"}
              THEN Served(400, Undefined, fs, settings)
            ELSE IF fsWritable
              THEN Served(204, Undefined,
                          writeFile(fs, filePath, JSONstringify(req.body, space)),
                          settings)
            ELSE Served(500, Undefined, fs, settings)
       [] req.method = "DELETE" ->
            IF content.kind = "absent" THEN Served(404, Undefined, fs, settings)
            ELSE IF fsWritable THEN Served(204, Undefined, rm(fs, filePath), settings)
            ELSE Served(500, Undefined, fs, settings)

\* the outcome of an invoke call: a document, undefined, null, nothing
\* (Promise<void>), or a thrown Error
\* message: the parts of the message of the Error thrown, in order
Result(kind, value, message) ==
  [kind |-> kind, value |-> value, message |-> message]

ResultUndefined == Result("undefined", Undefined, <<>>)

ResultNull == Result("null", Undefined, <<>>)

ResultVoid == Result("void", Undefined, <<>>)

ResultError(message) == Result("error", Undefined, message)

ResultValue(value) == Result("value", value, <<>>)

\* the Response a fetch resolves with: its status, its statusText, whether
\* its body is JSON text, and the value that text parses to
FetchResponse(status, statusText, json, value) ==
  [status |-> status, statusText |-> statusText, json |-> json, value |-> value]

NoFetch == FetchResponse(0, "", FALSE, Undefined)

\* response.ok
ok(fetchResponse) == fetchResponse.status \in 200..299

\* the reason phrase an HTTP/1.1 answer of the storage API carries
ReasonPhrase(status) ==
  CASE status = 200 -> "OK"
    [] status = 204 -> "No Content"
    [] status = 400 -> "Bad Request"
    [] status = 404 -> "Not Found"
    [] status = 500 -> "Internal Server Error"

\* the Response of an answer of the storage API: res.json(...) on 200
ServedResponse(reply) ==
  FetchResponse(reply.status, ReasonPhrase(reply.status), reply.status = 200,
                reply.value)

\* ${response.statusText || response.status}
StatusDetail(fetchResponse) ==
  IF fetchResponse.statusText # "" THEN fetchResponse.statusText
  ELSE ToString(fetchResponse.status)

\* new Error(`Unable to ${verb} ${what} (${...})`)
UnableTo(verb, what, fetchResponse) ==
  ResultError(<<"Unable to ", verb, " ", what, " (", StatusDetail(fetchResponse), ")">>)

\* the SyntaxError response.json() rejects with
SyntaxError == ResultError(<<"SyntaxError">>)

----------------------------------------------------------------------------
(* MainApiService: the operations, on each backend *)

\* readEnvironmentData / readSettingsData with the storage API: 404 is
\* absence (undefined for an environment, null for the settings)
NetRead(fetchResponse, absent, what) ==
  IF fetchResponse.status = 404 THEN absent
  ELSE IF ~ok(fetchResponse) THEN UnableTo("read", what, fetchResponse)
  ELSE IF fetchResponse.json THEN ResultValue(fetchResponse.value)
  ELSE SyntaxError

\* writeEnvironmentData / writeSettingsData with the storage API
NetWrite(fetchResponse, what) ==
  IF ~ok(fetchResponse) THEN UnableTo("write", what, fetchResponse) ELSE ResultVoid

NetDeleteThrowsOnNotFound(fetchResponse) ==
  IF fetchResponse.status = 204 THEN ResultVoid
  ELSE IF ~ok(fetchResponse) THEN UnableTo("delete", "environment", fetchResponse)
  ELSE ResultVoid

\* deleteEnvironmentData with the storage API
NetDelete(fetchResponse) ==
  IF fetchResponse.status \in {404, 204} THEN ResultVoid
  ELSE IF ~ok(fetchResponse) THEN UnableTo("delete", "environment", fetchResponse)
  ELSE ResultVoid

\* store.put(environment) on the store created with keyPath 'uuid'
StorePut(store, environment) ==
  [store EXCEPT ![UuidChars(environment.uuid)] = environment]

\* store.get(key): request.result, undefined for a key not stored
StoreGet(store, key) ==
  IF store[key] = Undefined THEN ResultUndefined ELSE ResultValue(store[key])

\* store.delete(key)
StoreDelete(store, key) == [store EXCEPT ![key] = Undefined]

\* the arguments of an invoke call
Invocation(channel, path, data, storagePrettyPrint) ==
  [channel |-> channel, path |-> path, data |-> data,
   storagePrettyPrint |-> storagePrettyPrint]

NoInvocation == Invocation("none", <<>>, Undefined, "undefined")

\* paths of descriptors and identifiers of reads and deletes: the uuid of
\* the environment, and the name of its file
ClientPaths == {UuidChars("u1"), <<"a", ".", "j", "s", "o", "n">>}

ClientFilePaths ==
  {pathJoin(EnvDir, ensureJsonExtension(ensureStorageKey(p))) : p \in ClientPaths}

\* descriptor?: EnvironmentDescriptor, of which only path is read
DescriptorArgs ==
  {[defined |-> FALSE, path |-> <<>>]}
  \cup {[defined |-> TRUE, path |-> p] : p \in ClientPaths}

\* storagePrettyPrint?: boolean
PrettyPrintValues == {"undefined", "true", "false"}

\* invoke('APP_READ_ENVIRONMENT_DATA', path)
ReadEnvironmentData(path) ==
  /\ LET reply == Serve(EnvironmentRequest("GET", path, FALSE, Undefined),
                         files, settingsFile)
     IN /\ fetched' = ServedResponse(reply)
        /\ netResult' = NetRead(fetched', ResultUndefined, "environment")
  /\ idbResult' = StoreGet(idbStore, path)
  /\ invocation' = Invocation("APP_READ_ENVIRONMENT_DATA", path, Undefined,
                              "undefined")
  /\ invoked' = invoked + 1
  /\ UNCHANGED <<idbStore, appSettings, diskVars, runtimeVars, hashVars, apiVars, idbVars>>

\* invoke('APP_WRITE_ENVIRONMENT_DATA', environment, descriptor,
\* storagePrettyPrint)
WriteEnvironmentData(environment, descriptor, storagePrettyPrint) ==
  /\ LET targetPath == IF descriptor.defined THEN descriptor.path
                       ELSE UuidChars(environment.uuid)
         reply == Serve(EnvironmentRequest("PUT", targetPath,
                                            storagePrettyPrint = "true",
                                            SentBody(environment)),
                         files, settingsFile)
     IN /\ fetched' = ServedResponse(reply)
        /\ netResult' = NetWrite(fetched', "environment")
        /\ files' = reply.files
  /\ idbStore' = StorePut(idbStore, environment)
  /\ idbResult' = ResultVoid
  /\ invocation' = Invocation("APP_WRITE_ENVIRONMENT_DATA",
                              IF descriptor.defined THEN descriptor.path
                              ELSE UuidChars(environment.uuid),
                              environment, storagePrettyPrint)
  /\ invoked' = invoked + 1
  /\ UNCHANGED <<appSettings, dataFilesEnv, fsWritable, settingsFile,
                 runtimeVars, hashVars, apiVars, idbVars>>

\* invoke('APP_DELETE_ENVIRONMENT_DATA', path)
DeleteEnvironmentData(path) ==
  /\ LET reply == Serve(EnvironmentRequest("DELETE", path, FALSE, Undefined),
                         files, settingsFile)
     IN /\ fetched' = ServedResponse(reply)
        /\ netResult' = NetDelete(fetched')
        /\ files' = reply.files
  /\ idbStore' = StoreDelete(idbStore, path)
  /\ idbResult' = ResultVoid
  /\ invocation' = Invocation("APP_DELETE_ENVIRONMENT_DATA", path, Undefined,
                              "undefined")
  /\ invoked' = invoked + 1
  /\ UNCHANGED <<appSettings, dataFilesEnv, fsWritable, settingsFile,
                 runtimeVars, hashVars, apiVars, idbVars>>

\* invoke('APP_READ_SETTINGS_DATA'); raw ? JSON.parse(raw) : null
ReadSettingsData ==
  /\ LET reply == Serve(SettingsRequest("GET", FALSE, Undefined),
                         files, settingsFile)
     IN /\ fetched' = ServedResponse(reply)
        /\ netResult' = NetRead(fetched', ResultNull, "settings")
  /\ idbResult' = IF appSettings.kind = "absent" THEN ResultNull
                  ELSE IF JSONparse(appSettings).ok
                    THEN ResultValue(JSONparse(appSettings).value)
                  ELSE SyntaxError
  /\ invocation' = Invocation("APP_READ_SETTINGS_DATA", <<>>, Undefined,
                              "undefined")
  /\ invoked' = invoked + 1
  /\ UNCHANGED <<idbStore, appSettings, diskVars, runtimeVars, hashVars, apiVars, idbVars>>

\* invoke('APP_WRITE_SETTINGS_DATA', settings, storagePrettyPrint)
WriteSettingsData(settings, storagePrettyPrint) ==
  /\ LET reply == Serve(SettingsRequest("PUT", storagePrettyPrint = "true",
                                         SentBody(settings)),
                         files, settingsFile)
     IN /\ fetched' = ServedResponse(reply)
        /\ netResult' = NetWrite(fetched', "settings")
        /\ settingsFile' = reply.settingsFile
  /\ appSettings' = JSONstringify(settings, 0)
  /\ idbResult' = ResultVoid
  /\ invocation' = Invocation("APP_WRITE_SETTINGS_DATA", <<>>, settings,
                              storagePrettyPrint)
  /\ invoked' = invoked + 1
  /\ UNCHANGED <<idbStore, dataFilesEnv, fsWritable, files, runtimeVars, hashVars,
                 apiVars, idbVars>>

\* settings documents of the client: two objects that differ in one field
ClientSettings ==
  {EnvContent("object", "", DEFAULT_PORT), EnvContent("object", "", DEFAULT_PORT + 1)}

ClientNext ==
  \/ /\ invoked < MaxInvokes
     /\ \E path \in ClientPaths : ReadEnvironmentData(path)
  \/ /\ invoked < MaxInvokes
     /\ \E environment \in EnvironmentBodies, descriptor \in DescriptorArgs,
           storagePrettyPrint \in PrettyPrintValues :
          WriteEnvironmentData(environment, descriptor, storagePrettyPrint)
  \/ /\ invoked < MaxInvokes
     /\ \E path \in ClientPaths : DeleteEnvironmentData(path)
  \/ /\ invoked < MaxInvokes
     /\ ReadSettingsData
  \/ /\ invoked < MaxInvokes
     /\ \E settings \in ClientSettings, storagePrettyPrint \in PrettyPrintValues :
          WriteSettingsData(settings, storagePrettyPrint)

\* both stores empty
ClientIdle ==
  /\ idbStore = [k \in ClientPaths |-> Undefined]
  /\ appSettings = NoFile
  /\ invocation = NoInvocation
  /\ netResult = ResultUndefined
  /\ idbResult = ResultUndefined
  /\ invoked = 0
  /\ fetched = NoFetch

ClientDiskInit ==
  /\ dataFilesEnv = <<"a">>
  /\ fsWritable = TRUE
  /\ files = [p \in ClientFilePaths |-> NoFile]
  /\ settingsFile = NoFile

----------------------------------------------------------------------------
(* MainApiService: the networked operations, whatever the backend answers *)

\* statuses of the storage API, answered over HTTP/1.1 (with a reason
\* phrase) or over HTTP/2 (statusText is empty), with a JSON body or not
FetchStatuses == {200, 204, 400, 404, 500}

FetchResponses ==
  {FetchResponse(status, statusText, json,
                 IF json THEN EnvContent("object", "u1", DEFAULT_PORT)
                 ELSE Undefined) :
     status \in FetchStatuses, statusText \in {"", "reason"}, json \in BOOLEAN}

\* an invoke call whose fetch resolved with fetchResponse
Answered(channel, path, fetchResponse, result) ==
  /\ fetched' = fetchResponse
  /\ netResult' = result
  /\ invocation' = Invocation(channel, path, Undefined, "undefined")
  /\ invoked' = invoked + 1
  /\ UNCHANGED <<idbStore, appSettings, idbResult, diskVars, runtimeVars, hashVars,
                 apiVars, idbVars>>

ReadEnvironmentAnswered(fetchResponse) ==
  Answered("APP_READ_ENVIRONMENT_DATA", UuidChars("u1"), fetchResponse,
           NetRead(fetchResponse, ResultUndefined, "environment"))

WriteEnvironmentAnswered(fetchResponse) ==
  Answered("APP_WRITE_ENVIRONMENT_DATA", UuidChars("u1"), fetchResponse,
           NetWrite(fetchResponse, "environment"))

DeleteEnvironmentAnswered(fetchResponse) ==
  Answered("APP_DELETE_ENVIRONMENT_DATA", UuidChars("u1"), fetchResponse,
           NetDelete(fetchResponse))

ReadSettingsAnswered(fetchResponse) ==
  Answered("APP_READ_SETTINGS_DATA", <<>>, fetchResponse,
           NetRead(fetchResponse, ResultNull, "settings"))

WriteSettingsAnswered(fetchResponse) ==
  Answered("APP_WRITE_SETTINGS_DATA", <<>>, fetchResponse,
           NetWrite(fetchResponse, "settings"))

FetchNext ==
  \/ /\ invoked < MaxInvokes
     /\ \E fetchResponse \in FetchResponses : ReadEnvironmentAnswered(fetchResponse)
  \/ /\ invoked < MaxInvokes
     /\ \E fetchResponse \in FetchResponses : WriteEnvironmentAnswered(fetchResponse)
  \/ /\ invoked < MaxInvokes
     /\ \E fetchResponse \in FetchResponses : DeleteEnvironmentAnswered(fetchResponse)
  \/ /\ invoked < MaxInvokes
     /\ \E fetchResponse \in FetchResponses : ReadSettingsAnswered(fetchResponse)
  \/ /\ invoked < MaxInvokes
     /\ \E fetchResponse \in FetchResponses : WriteSettingsAnswered(fetchResponse)

ReadChannels == {"APP_READ_ENVIRONMENT_DATA", "APP_READ_SETTINGS_DATA"}

WriteChannels == {"APP_WRITE_ENVIRONMENT_DATA", "APP_WRITE_SETTINGS_DATA"}

DeleteChannels == {"APP_DELETE_ENVIRONMENT_DATA"}

\* a 404 to a read is the absent result, a 404 to a delete is success
NotFoundIsAbsence ==
  fetched.status = 404 =>
    /\ invocation.channel = "APP_READ_ENVIRONMENT_DATA" => netResult = ResultUndefined
    /\ invocation.channel = "APP_READ_SETTINGS_DATA" => netResult = ResultNull
    /\ invocation.channel \in DeleteChannels => netResult = ResultVoid

\* every other answer that is not 2xx is an Error whose message holds the
\* status text, or the status code when there is no status text
FailureIsThrown ==
  (/\ fetched # NoFetch
   /\ ~ok(fetched)
   /\ ~(fetched.status = 404 /\ invocation.channel \notin WriteChannels)) =>
    /\ netResult.kind = "error"
    /\ \/ fetched.statusText # "" /\ fetched.statusText \in Range(netResult.message)
       \/ fetched.statusText = "" /\ ToString(fetched.status) \in Range(netResult.message)

\* C21, as stated: 404 to a read is absence and to a delete is success, every
\* other non-2xx answer is a thrown Error naming the status text or code, and
\* no 2xx answer is surfaced as an error
C21_Original ==
  /\ NotFoundIsAbsence
  /\ FailureIsThrown
  /\ ok(fetched) => netResult.kind # "error"

\* C21, amended: 404 to a read is absence and to a delete is success, every
\* other non-2xx answer is a thrown Error naming the status text or code, and
\* a 2xx answer is an error only for a read whose body is not JSON
C21_ResponseMapping ==
  /\ NotFoundIsAbsence
  /\ FailureIsThrown
  /\ ok(fetched) =>
       (netResult.kind = "error" <=>
          invocation.channel \in ReadChannels /\ ~fetched.json)

\* a delete answered 404 without status text, after a write answered 500
\* with one
C21_Witness ==
  /\ invocation.channel \in DeleteChannels
  /\ fetched.status = 404
  /\ fetched.statusText = ""
  /\ netResult = ResultVoid
  /\ invoked > 1

----------------------------------------------------------------------------
(* MainApiService: one IndexedDB operation, event by event *)

MaxIdbOperations == 3

\* longest message of sha1 over its two-character alphabet
MaxMessageLen == 2

IdbOperations == {"read", "write", "delete"}

\* readEnvironmentDataIndexedDb / writeEnvironmentDataIndexedDb /
\* deleteEnvironmentDataIndexedDb is called: connectToIndexedDB opens the
\* database
IdbBegin(operation) ==
  /\ idbPhase \in {"idle", "settled"}
  /\ idbTransaction \in {"none", "complete", "aborted"}
  /\ idbOperations < MaxIdbOperations
  /\ idbOperation' = operation
  /\ idbPhase' = "opening"
  /\ idbPromise' = "pending"
  /\ idbTransaction' = "none"
  /\ onComplete' = FALSE
  /\ idbOperations' = idbOperations + 1
  /\ UNCHANGED <<openConnections, diskVars, runtimeVars, hashVars, apiVars, clientVars>>

\* openRequest.onerror: connectToIndexedDB rejects, and so does the operation
IdbOpenError ==
  /\ idbPhase = "opening"
  /\ idbPhase' = "settled"
  /\ idbPromise' = "rejected"
  /\ UNCHANGED <<idbOperation, idbTransaction, onComplete, openConnections,
                 idbOperations, diskVars, runtimeVars, hashVars, apiVars, clientVars>>

\* openRequest.onsuccess: the connection is open and the executor of the
\* operation's promise is about to run
IdbOpenSuccess ==
  /\ idbPhase = "opening"
  /\ idbPhase' = "connected"
  /\ openConnections' = openConnections + 1
  /\ UNCHANGED <<idbOperation, idbPromise, idbTransaction, onComplete,
                 idbOperations, diskVars, runtimeVars, hashVars, apiVars, clientVars>>

\* the executor: db.transaction(...) throws, and the promise rejects with no
\* transaction made
IdbTransactionThrows ==
  /\ idbPhase = "connected"
  /\ idbPhase' = "settled"
  /\ idbPromise' = "rejected"
  /\ UNCHANGED <<idbOperation, idbTransaction, onComplete, openConnections,
                 idbOperations, diskVars, runtimeVars, hashVars, apiVars, clientVars>>

\* the executor: the transaction is made, and store.get / store.put /
\* store.delete throws; the write has assigned transaction.oncomplete by
\* then, the read and the delete have not
IdbRequestThrows ==
  /\ idbPhase = "connected"
  /\ idbPhase' = "settled"
  /\ idbPromise' = "rejected"
  /\ idbTransaction' = "active"
  /\ onComplete' = (idbOperation = "write")
  /\ UNCHANGED <<idbOperation, openConnections, idbOperations, diskVars,
                 runtimeVars, hashVars, apiVars, clientVars>>

\* the executor runs to its end: the request is placed and the handlers are
\* assigned
IdbRequestPlaced ==
  /\ idbPhase = "connected"
  /\ idbPhase' = "requested"
  /\ idbTransaction' = "active"
  /\ onComplete' = TRUE
  /\ UNCHANGED <<idbOperation, idbPromise, openConnections, idbOperations,
                 diskVars, runtimeVars, hashVars, apiVars, clientVars>>

\* request.onsuccess: resolve
IdbRequestSuccess ==
  /\ idbPhase = "requested"
  /\ idbPhase' = "settled"
  /\ idbPromise' = "resolved"
  /\ UNCHANGED <<idbOperation, idbTransaction, onComplete, openConnections,
                 idbOperations, diskVars, runtimeVars, hashVars, apiVars, clientVars>>

\* request.onerror: reject; the error is not prevented, so the transaction
\* aborts
IdbRequestError ==
  /\ idbPhase = "requested"
  /\ idbPhase' = "settled"
  /\ idbPromise' = "rejected"
  /\ idbTransaction' = "aborted"
  /\ UNCHANGED <<idbOperation, onComplete, openConnections, idbOperations,
                 diskVars, runtimeVars, hashVars, apiVars, clientVars>>

\* the transaction, no request of it pending, commits: transaction.oncomplete
\* calls db.close() if it has been assigned
IdbTransactionComplete ==
  /\ idbPhase = "settled"
  /\ idbTransaction = "active"
  /\ idbTransaction' = "complete"
  /\ openConnections' = IF onComplete THEN openConnections - 1
                        ELSE openConnections
  /\ UNCHANGED <<idbOperation, idbPhase, idbPromise, onComplete, idbOperations,
                 diskVars, runtimeVars, hashVars, apiVars, clientVars>>

\* the commit fails (the quota is exceeded, say): the transaction aborts and
\* no handler of the operation is called
IdbTransactionAbort ==
  /\ idbPhase = "settled"
  /\ idbTransaction = "active"
  /\ idbTransaction' = "aborted"
  /\ UNCHANGED <<idbOperation, idbPhase, idbPromise, onComplete,
                 openConnections, idbOperations, diskVars, runtimeVars, hashVars, apiVars,
                 clientVars>>

IdbNext ==
  \/ \E operation \in IdbOperations : IdbBegin(operation)
  \/ IdbOpenError
  \/ IdbOpenSuccess
  \/ IdbTransactionThrows
  \/ IdbRequestThrows
  \/ IdbRequestPlaced
  \/ IdbRequestSuccess
  \/ IdbRequestError
  \/ IdbTransactionComplete
  \/ IdbTransactionAbort

IdbIdle ==
  /\ idbOperation = "none"
  /\ idbPhase = "idle"
  /\ idbPromise = "none"
  /\ idbTransaction = "none"
  /\ onComplete = FALSE
  /\ openConnections = 0
  /\ idbOperations = 0

----------------------------------------------------------------------------
(* Properties of MainApiService *)

\* the file of the storage API that the write invoked last names
WrittenFile ==
  IF invocation.channel = "APP_WRITE_SETTINGS_DATA" THEN settingsFile
  ELSE files[pathJoin(EnvDir,
                      ensureJsonExtension(ensureStorageKey(invocation.path)))]

\* C18 (as claimed): with the storage API as backend, a write of an
\* environment or of the settings with storagePrettyPrint true leaves
\* 2-space-indented JSON on disk, and one with storagePrettyPrint false
\* leaves compact JSON.
C18_PrettyEndToEnd ==
  (/\ invocation.channel \in {"APP_WRITE_ENVIRONMENT_DATA",
                              "APP_WRITE_SETTINGS_DATA"}
   /\ netResult = ResultVoid) =>
    /\ invocation.storagePrettyPrint = "true" =>
         WrittenFile = JSONstringify(invocation.data, 2)
    /\ invocation.storagePrettyPrint = "false" =>
         WrittenFile = JSONstringify(invocation.data, 0)

\* C19 (as claimed): after every invoke call of a sequence started on empty
\* stores, the outcome with the storage API as backend equals the outcome
\* with IndexedDB and localStorage as backend.
C19_BackendParity == netResult = idbResult

\* C20 (as claimed): once an operation's promise has settled and its
\* transaction, if it made one, has finished, no connection is open.
C20_ConnectionsClosed ==
  (idbPhase \in {"idle", "settled"} /\ idbTransaction # "active") =>
    openConnections = 0

----------------------------------------------------------------------------
(* sha1: the self-contained digest *)

\* a 32-bit word is the tuple of its bits, bit 31 first (\o <<>> makes a
\* tuple of a function over 1..n)

Bit == {0, 1}

WordBits == 32

Word == [1..WordBits -> Bit]

Zero == [k \in 1..WordBits |-> 0] \o <<>>

\* the 8 bits of a byte, bit 7 first
ByteBits(byte) == [k \in 1..8 |-> (byte \div (2 ^ (8 - k))) % 2] \o <<>>

\* b3 << 24 | b2 << 16 | b1 << 8 | b0
WordOfBytes(b3, b2, b1, b0) ==
  ByteBits(b3) \o ByteBits(b2) \o ByteBits(b1) \o ByteBits(b0)

\* x & y, x | y, x ^ y, ~x
BitAnd(x, y) == [k \in 1..WordBits |-> x[k] * y[k]] \o <<>>

BitOr(x, y) == [k \in 1..WordBits |-> IF x[k] + y[k] > 0 THEN 1 ELSE 0] \o <<>>

BitXor(x, y) == [k \in 1..WordBits |-> (x[k] + y[k]) % 2] \o <<>>

BitNot(x) == [k \in 1..WordBits |-> 1 - x[k]] \o <<>>

\* (x << n) | (x >>> (32 - n))
RotateLeft(x, n) ==
  [k \in 1..WordBits |-> x[((k + n - 1) % WordBits) + 1]] \o <<>>

\* bits 1..k of x + y + carry, the carry out of bit 31 being dropped
RECURSIVE AddFrom(_, _, _, _)
AddFrom(x, y, k, carry) ==
  IF k = 0 THEN <<>>
  ELSE LET sum == x[k] + y[k] + carry
       IN IF sum > 1 THEN Append(AddFrom(x, y, k - 1, 1), sum - 2)
          ELSE Append(AddFrom(x, y, k - 1, 0), sum)

\* (x + y) >>> 0
Add(x, y) == AddFrom(x, y, WordBits, 0)

\* new TextEncoder().encode(message): UTF-8, U+00E9 taking two bytes
Utf8(char) ==
  CASE char = "e-acute" -> <<195, 169>>
    [] char = "a" -> <<97>>
    [] char = "b" -> <<98>>
    [] char = "c" -> <<99>>
    [] char = "d" -> <<100>>
    [] char = "e" -> <<101>>
    [] char = "f" -> <<102>>
    [] char = "g" -> <<103>>
    [] char = "h" -> <<104>>
    [] char = "i" -> <<105>>
    [] char = "j" -> <<106>>
    [] char = "k" -> <<107>>
    [] char = "l" -> <<108>>
    [] char = "m" -> <<109>>
    [] char = "n" -> <<110>>
    [] char = "o" -> <<111>>
    [] char = "p" -> <<112>>
    [] char = "q" -> <<113>>

RECURSIVE encode(_)
encode(message) ==
  IF message = <<>> THEN <<>> ELSE Utf8(Head(message)) \o encode(Tail(message))

\* (((messageLength + 8) >> 6) << 4) + 16
WordsCount(messageLength) == (((messageLength + 8) \div 64) * 16) + 16

\* the byte or-ed into words[index >> 2] at the place of index & 3: a byte
\* of the message, then 0x80, nothing after it
PaddedByte(messageBytes, position) ==
  IF position < Len(messageBytes) THEN messageBytes[position + 1]
  ELSE IF position = Len(messageBytes) THEN 128
  ELSE 0

\* words, after the two lengths have been assigned to its last two words;
\* Math.floor(bitLength / 0x100000000) is 0 below 2^32 bits
PaddedWords(messageBytes) ==
  LET wordsCount == WordsCount(Len(messageBytes))
      bitLength == Len(messageBytes) * 8
      filled == [j \in 1..wordsCount |->
                   WordOfBytes(PaddedByte(messageBytes, 4 * (j - 1)),
                               PaddedByte(messageBytes, 4 * (j - 1) + 1),
                               PaddedByte(messageBytes, 4 * (j - 1) + 2),
                               PaddedByte(messageBytes, 4 * (j - 1) + 3))]
  IN [filled EXCEPT
        ![wordsCount] = WordOfBytes(0, 0, bitLength \div 256, bitLength % 256),
        ![wordsCount - 1] = Zero] \o <<>>

\* 0x67452301, 0xefcdab89, 0x98badcfe, 0x10325476, 0xc3d2e1f0
InitialH ==
  <<WordOfBytes(103, 69, 35, 1), WordOfBytes(239, 205, 171, 137),
    WordOfBytes(152, 186, 220, 254), WordOfBytes(16, 50, 84, 118),
    WordOfBytes(195, 210, 225, 240)>>

\* w[i] for i >= 16, w[0] .. w[i - 1] being given: the xor of four earlier
\* words, rotated by one
Expand(w) ==
  LET i == Len(w) + 1
      value == BitXor(BitXor(w[i - 3], w[i - 8]), BitXor(w[i - 14], w[i - 16]))
  IN RotateLeft(value, 1)

\* f of round i, over b, c, d
RoundFAlwaysParity(i, b, c, d) == BitXor(BitXor(b, c), d)

RoundF(i, b, c, d) ==
  IF i < 20 THEN BitOr(BitAnd(b, c), BitAnd(BitNot(b), d))
  ELSE IF i < 40 THEN BitXor(BitXor(b, c), d)
  ELSE IF i < 60 THEN BitOr(BitOr(BitAnd(b, c), BitAnd(b, d)), BitAnd(c, d))
  ELSE BitXor(BitXor(b, c), d)

\* k of round i: 0x5a827999, 0x6ed9eba1, 0x8f1bbcdc, 0xca62c1d6
RoundK(i) ==
  IF i < 20 THEN WordOfBytes(90, 130, 121, 153)
  ELSE IF i < 40 THEN WordOfBytes(110, 217, 235, 161)
  ELSE IF i < 60 THEN WordOfBytes(143, 27, 188, 220)
  ELSE WordOfBytes(202, 98, 193, 214)

\* one round: <<a, b, c, d, e>> after it
Round(regs, i, wi) ==
  LET a == regs[1]
      b == regs[2]
      c == regs[3]
      d == regs[4]
      e == regs[5]
      temp == Add(Add(Add(Add(RotateLeft(a, 5), RoundF(i, b, c, d)), e),
                      RoundK(i)), wi)
  IN <<temp, a, RotateLeft(b, 30), c, d>>

HexDigits ==
  <<"0", "1", "2", "3", "4", "5", "6", "7", "8", "9", "a", "b", "c", "d", "e", "f">>

\* the hexadecimal digits of the bits, four bits a digit
RECURSIVE Nibbles(_)
Nibbles(bits) ==
  IF bits = <<>> THEN <<>>
  ELSE <<HexDigits[8 * bits[1] + 4 * bits[2] + 2 * bits[3] + bits[4] + 1]>>
       \o Nibbles(SubSeq(bits, 5, Len(bits)))

\* value.toString(16): no leading zero, one digit at least
RECURSIVE StripZeros(_)
StripZeros(digits) ==
  IF Len(digits) > 1 /\ Head(digits) = "0" THEN StripZeros(Tail(digits))
  ELSE digits

toString16(bits) == StripZeros(Nibbles(bits))

\* string.padStart(length, '0')
RECURSIVE padStart(_, _)
padStart(string, length) ==
  IF Len(string) >= length THEN string ELSE padStart(<<"0">> \o string, length)

\* [h0, h1, h2, h3, h4].map((value) => value.toString(16).padStart(8, '0'))
\*   .join('')
RECURSIVE JoinWords(_)
JoinWords(values) ==
  IF values = <<>> THEN <<>>
  ELSE padStart(toString16(Head(values)), 8) \o JoinWords(Tail(values))

\* words, h0 .. h4 and blockStart before the loop over the blocks
Sha1Pad ==
  /\ shaPc = "start"
  /\ shaWords' = PaddedWords(encode(shaMessage))
  /\ shaH' = InitialH
  /\ shaBlockStart' = 0
  /\ shaPc' = "load"
  /\ UNCHANGED <<shaMessage, shaW, shaRegs, shaI, shaDigest, subtle, hashResult,
                 hashCalls, diskVars, runtimeVars, apiVars, clientVars, idbVars>>

\* w[0] .. w[15]: the words of the block
Sha1Load ==
  /\ shaPc = "load"
  /\ shaW' = SubSeq(shaWords, shaBlockStart + 1, shaBlockStart + 16)
  /\ shaPc' = "expand"
  /\ UNCHANGED <<shaMessage, shaWords, shaH, shaRegs, shaI, shaBlockStart,
                 shaDigest, subtle, hashResult, hashCalls, diskVars, runtimeVars,
                 apiVars, clientVars, idbVars>>

\* one pass of the loop over i = 16 .. 79, and a .. e after the last one
Sha1Expand ==
  /\ shaPc = "expand"
  /\ shaW' = Append(shaW, Expand(shaW))
  /\ IF Len(shaW') = 80
       THEN /\ shaRegs' = shaH
            /\ shaI' = 0
            /\ shaPc' = "rounds"
       ELSE UNCHANGED <<shaRegs, shaI, shaPc>>
  /\ UNCHANGED <<shaMessage, shaWords, shaH, shaBlockStart, shaDigest, subtle,
                 hashResult, hashCalls, diskVars, runtimeVars, apiVars,
                 clientVars, idbVars>>

\* one pass of the loop of 80 rounds
Sha1Round ==
  /\ shaPc = "rounds"
  /\ shaI < 80
  /\ shaRegs' = Round(shaRegs, shaI, shaW[shaI + 1])
  /\ shaI' = shaI + 1
  /\ UNCHANGED <<shaMessage, shaPc, shaWords, shaH, shaW, shaBlockStart,
                 shaDigest, subtle, hashResult, hashCalls, diskVars, runtimeVars,
                 apiVars, clientVars, idbVars>>

\* h0 .. h4 after the block, then the next block, or the digest returned
Sha1BlockEnd ==
  /\ shaPc = "rounds"
  /\ shaI = 80
  /\ shaH' = [n \in 1..5 |-> Add(shaH[n], shaRegs[n])] \o <<>>
  /\ shaBlockStart' = shaBlockStart + 16
  /\ IF shaBlockStart' < Len(shaWords)
       THEN /\ shaPc' = "load"
            /\ UNCHANGED shaDigest
       ELSE /\ shaPc' = "done"
            /\ shaDigest' = JoinWords(shaH')
  /\ UNCHANGED <<shaMessage, shaWords, shaW, shaRegs, shaI, subtle, hashResult,
                 hashCalls, diskVars, runtimeVars, apiVars, clientVars, idbVars>>

Sha1Next == Sha1Pad \/ Sha1Load \/ Sha1Expand \/ Sha1Round \/ Sha1BlockEnd

\* sha1 not called
ShaIdle ==
  /\ shaPc = "start"
  /\ shaWords = <<>>
  /\ shaH = InitialH
  /\ shaW = <<>>
  /\ shaRegs = InitialH
  /\ shaI = 0
  /\ shaBlockStart = 0
  /\ shaDigest = <<>>

\* APP_GET_HASH not called
GetHashIdle ==
  /\ subtle = "present"
  /\ hashResult = [message |-> <<>>, kind |-> "none", digest |-> <<>>]
  /\ hashCalls = 0

HashIdle == shaMessage = <<>> /\ ShaIdle /\ GetHashIdle

\* messages over "a" and U+00E9
RECURSIVE MessagesUpTo(_)
MessagesUpTo(n) ==
  IF n = 0 THEN {<<>>}
  ELSE LET shorter == MessagesUpTo(n - 1)
       IN shorter \cup {Append(m, char) : m \in shorter, char \in {"a", "e-acute"}}

Abc == <<"a", "b", "c">>

\* a message of 56 bytes, which takes two blocks
TwoBlocks ==
  <<"a", "b", "c", "d", "b", "c", "d", "e", "c", "d", "e", "f", "d", "e",
  "f", "g", "e", "f", "g", "h", "f", "g", "h", "i", "g", "h", "i", "j",
  "h", "i", "j", "k", "i", "j", "k", "l", "j", "k", "l", "m", "k", "l",
  "m", "n", "l", "m", "n", "o", "m", "n", "o", "p", "n", "o", "p", "q">>

Messages == MessagesUpTo(MaxMessageLen) \cup {Abc, TwoBlocks}

\* the bytes of the SHA-1 digest of the UTF-8 encoding of the message, as
\* the platform computes it
PlatformDigest(message) ==
  CASE message = <<>> ->
         <<218, 57, 163, 238, 94, 107, 75, 13, 50, 85, 191, 239, 149, 96,
           24, 144, 175, 216, 7, 9>>
    [] message = <<"a">> ->
         <<134, 247, 228, 55, 250, 165, 167, 252, 225, 93, 29, 220, 185,
           234, 234, 234, 55, 118, 103, 184>>
    [] message = <<"e-acute">> ->
         <<191, 21, 190, 113, 122, 193, 176, 128, 180, 241, 196, 86, 105,
           40, 37, 137, 31, 245, 7, 61>>
    [] message = <<"a", "a">> ->
         <<224, 201, 3, 88, 152, 221, 82, 252, 101, 196, 20, 84, 206, 201,
           196, 210, 97, 27, 251, 55>>
    [] message = <<"a", "e-acute">> ->
         <<198, 50, 73, 53, 235, 99, 210, 176, 60, 100, 233, 185, 229, 127,
           152, 19, 78, 248, 190, 168>>
    [] message = <<"e-acute", "a">> ->
         <<43, 136, 104, 87, 248, 83, 251, 81, 163, 9, 181, 11, 202, 171,
           26, 40, 126, 196, 31, 157>>
    [] message = <<"e-acute", "e-acute">> ->
         <<129, 226, 141, 213, 23, 229, 87, 232, 242, 227, 94, 255, 241,
           148, 135, 190, 197, 233, 191, 229>>
    [] message = <<"a", "a", "a">> ->
         <<126, 36, 13, 231, 79, 177, 237, 8, 250, 8, 211, 128, 99, 246,
           166, 169, 20, 98, 168, 21>>
    [] message = <<"a", "a", "e-acute">> ->
         <<118, 184, 236, 102, 75, 221, 83, 243, 43, 35, 248, 240, 243, 37,
           187, 212, 240, 37, 108, 109>>
    [] message = <<"a", "e-acute", "a">> ->
         <<3, 176, 240, 143, 94, 194, 223, 130, 114, 160, 78, 44, 31, 129,
           243, 237, 252, 81, 25, 33>>
    [] message = <<"a", "e-acute", "e-acute">> ->
         <<183, 229, 113, 46, 83, 56, 151, 127, 238, 192, 73, 36, 86, 199,
           247, 51, 11, 36, 62, 215>>
    [] message = <<"e-acute", "a", "a">> ->
         <<238, 71, 76, 142, 243, 118, 223, 244, 176, 195, 154, 13, 198,
           211, 58, 14, 151, 62, 168, 254>>
    [] message = <<"e-acute", "a", "e-acute">> ->
         <<69, 85, 1, 45, 211, 240, 100, 194, 155, 193, 21, 180, 193, 80,
           117, 244, 160, 147, 174, 61>>
    [] message = <<"e-acute", "e-acute", "a">> ->
         <<75, 232, 216, 112, 201, 119, 127, 222, 95, 57, 131, 194, 168,
           159, 43, 180, 98, 93, 95, 234>>
    [] message = <<"e-acute", "e-acute", "e-acute">> ->
         <<183, 237, 94, 200, 39, 190, 1, 208, 95, 200, 160, 172, 7, 226,
           122, 119, 242, 253, 208, 75>>
    [] message = <<"a", "b", "c">> ->
         <<169, 153, 62, 54, 71, 6, 129, 106, 186, 62, 37, 113, 120, 80,
           194, 108, 156, 208, 216, 157>>
    [] message = <<"a", "b", "c", "d", "b", "c", "d", "e", "c", "d",
                      "e", "f", "d", "e", "f", "g", "e", "f", "g", "h",
                      "f", "g", "h", "i", "g", "h", "i", "j", "h", "i",
                      "j", "k", "i", "j", "k", "l", "j", "k", "l", "m",
                      "k", "l", "m", "n", "l", "m", "n", "o", "m", "n",
                      "o", "p", "n", "o", "p", "q">> ->
         <<132, 152, 62, 68, 28, 59, 210, 110, 186, 174, 74, 161, 249, 81,
           41, 229, 229, 70, 112, 241>>

\* b.toString(16).padStart(2, '0') of every byte, joined
RECURSIVE HexOfBytes(_)
HexOfBytes(bytes) ==
  IF bytes = <<>> THEN <<>>
  ELSE padStart(toString16(ByteBits(Head(bytes))), 2) \o HexOfBytes(Tail(bytes))

Words(values) == \A n \in DOMAIN values : values[n] \in Word

\* C22: sha1 returns the 40 lowercase hexadecimal digits of the SHA-1 digest
\* of the UTF-8 encoding of its input, as the platform digest does; sha1('')
\* and sha1('abc') are the reference digests; every intermediate word is a
\* word of 32 bits
C22_DigestCorrect ==
  /\ Words(shaWords) /\ Words(shaH) /\ Words(shaW) /\ Words(shaRegs)
  /\ shaPc = "done" =>
       /\ Len(shaDigest) = 40
       /\ Range(shaDigest) \subseteq Range(HexDigits)
       /\ shaDigest = HexOfBytes(PlatformDigest(shaMessage))
       /\ shaMessage = <<>> =>
            shaDigest =
              <<"d", "a", "3", "9", "a", "3", "e", "e", "5", "e", "6", "b",
              "4", "b", "0", "d", "3", "2", "5", "5", "b", "f", "e", "f",
              "9", "5", "6", "0", "1", "8", "9", "0", "a", "f", "d", "8",
              "0", "7", "0", "9">>
       /\ shaMessage = Abc =>
            shaDigest =
              <<"a", "9", "9", "9", "3", "e", "3", "6", "4", "7", "0", "6",
              "8", "1", "6", "a", "b", "a", "3", "e", "2", "5", "7", "1",
              "7", "8", "5", "0", "c", "2", "6", "c", "9", "c", "d", "0",
              "d", "8", "9", "d">>

\* the digest of the message of two blocks has been returned
C22_Witness ==
  /\ shaPc = "done"
  /\ shaMessage = TwoBlocks
  /\ shaBlockStart = 32

----------------------------------------------------------------------------
(* MainApiService: dispatch of APP_GET_HASH *)

MaxHashCalls == 4

\* window.crypto.subtle: present, undefined outside a secure context, or
\* present with a digest that rejects
SubtleStates == {"present", "undefined", "rejects"}

\* outcome of invoke('APP_GET_HASH', message): the string the promise
\* resolves with, or the error it rejects with
HashOutcome(message, kind, digest) ==
  [message |-> message, kind |-> kind, digest |-> digest]

\* invoke('APP_GET_HASH', message): window.crypto.subtle.digest('SHA-1', ...)
\* and nothing else; reading digest of undefined throws a TypeError
GetHash(message, subtleState) ==
  /\ subtle' = subtleState
  /\ hashResult' =
       CASE subtleState = "present" ->
              HashOutcome(message, "digest", HexOfBytes(PlatformDigest(message)))
         [] subtleState = "undefined" -> HashOutcome(message, "TypeError", <<>>)
         [] subtleState = "rejects" -> HashOutcome(message, "rejected", <<>>)
  /\ hashCalls' = hashCalls + 1
  /\ UNCHANGED <<shaVars, diskVars, runtimeVars, apiVars, clientVars, idbVars>>

HashNext ==
  /\ hashCalls < MaxHashCalls
  /\ \E message \in Messages, subtleState \in SubtleStates :
       GetHash(message, subtleState)

\* C23: APP_GET_HASH returns a digest, that of the self-contained sha1, when
\* the platform digest is missing or fails
C23_FallbackDigest ==
  (hashCalls > 0 /\ subtle # "present") => hashResult.kind = "digest"

----------------------------------------------------------------------------
(* Specifications *)

StorageIdle == ApiIdle /\ ClientIdle /\ IdbIdle /\ HashIdle

SupervisorInit == SanIdle /\ SupDiskInit /\ BootInit /\ RunInit /\ SupInit
  /\ StorageIdle

SpecSup == SupervisorInit /\ [][SupNext]_vars

\* the callback of server.close is called once the listener has no open
\* connection left
FairSup == SpecSup /\ WF_vars(CloseCallback)

StartInit == SanIdle /\ StartDiskInit /\ BootInit /\ RunInit /\ SupInit
  /\ StorageIdle

SpecStart == StartInit /\ [][StartNext]_vars

BootNext ==
  \/ BeginInitialState
  \/ EnsureEnvironmentFile
  \/ EnsureSettingsFile
  \/ StartAgain

BootstrapInit ==
  SanIdle /\ DiskInit /\ BootInit /\ RunInit /\ SupInit /\ uiWritable = TRUE
  /\ StorageIdle

SpecBoot == BootstrapInit /\ [][BootNext]_vars

DiskIdle ==
  /\ dataFilesEnv = <<"a">>
  /\ fsWritable = TRUE
  /\ files = [p \in PathUniverse |-> EnvAbsent]
  /\ settingsFile = SettingsAbsent

SanNext == \E method \in Methods : ResolveEnvironmentRoute(method)

SanitizerInit ==
  SanInit /\ DiskIdle /\ BootInit /\ RunInit /\ SupInit /\ uiWritable = TRUE
  /\ StorageIdle

SpecSan == SanitizerInit /\ [][SanNext]_vars

\* the process after startCombinedMode has started the listener and the
\* child, over the one configured file a.json
ListeningInit ==
  /\ SanIdle
  /\ pc = "running"
  /\ fileNames = parseDataFileNames(<<"a">>)
  /\ index = 1
  /\ descriptors = <<Descriptor("u1", <<"a", ".", "j", "s", "o", "n">>)>>
  /\ uuidCounter = 0
  /\ RunInit
  /\ uiWritable = TRUE
  /\ child = "running"
  /\ childCode = NoCode
  /\ childSignal = "none"
  /\ exitEvent = "none"
  /\ childKilled = FALSE
  /\ server = "listening"
  /\ closeCallback = "none"
  /\ shuttingDown = FALSE
  /\ exitCodeArg = NoCode
  /\ procExited = FALSE
  /\ procExitCode = NoCode
  /\ shutdownRuns = 0
  /\ closeCalls = 0
  /\ killCalls = 0
  /\ exitCalls = 0
  /\ events = <<>>

ApiInit == ApiDiskInit /\ ListeningInit /\ StorageIdle

ClientInit == ClientDiskInit /\ ListeningInit /\ StorageIdle

SpecClient == ClientInit /\ [][ClientNext]_vars

SpecIdb == ClientInit /\ [][IdbNext]_vars

SpecFetch == ClientInit /\ [][FetchNext]_vars

\* sha1 about to be applied to a message
Sha1Init ==
  /\ ClientDiskInit /\ ListeningInit /\ ApiIdle /\ ClientIdle /\ IdbIdle
  /\ shaMessage \in Messages
  /\ ShaIdle
  /\ GetHashIdle

SpecSha1 == Sha1Init /\ [][Sha1Next]_vars

SpecHash == ClientInit /\ [][HashNext]_vars

SpecApi == ApiInit /\ [][ApiNext]_vars

SpecPretty == ApiInit /\ [][PrettyNext]_vars

====
